---- MODULE Spec2Model ----
(***************************************************************************)
(* OpusDeiTradeMetaL: the alert pipeline (processors/alerts.py), the       *)
(* control commands that configure it (bot/handler.py) and the price       *)
(* fusion engine (collectors/prices.py), as state machines.                *)
(*                                                                         *)
(* Time is the integer number of seconds since the start of the run.       *)
(* The clock advances only by the Tick and Elapse actions; every           *)
(* synchronous stretch of code (the code between two points where a        *)
(* coroutine really suspends) is one action.                               *)
(***************************************************************************)
EXTENDS Integers, Sequences, FiniteSets, TLC

VARIABLES
    now,                    \* the wall clock read by utcnow() / datetime.utcnow()
    alert_queue,            \* AlertProcessor.alert_queue
    alerts_sent_this_hour,  \* AlertProcessor.alerts_sent_this_hour
    hour_start,             \* AlertProcessor.hour_start
    user_config,            \* AlertProcessor.user_config (in-memory copy)
    db_config,              \* table user_config of the database
    alerts_sent,            \* table alerts_sent of the database (content_hash column)
    pc,                     \* where each caller of process_queue is suspended
    cur,                    \* the alert each caller has popped and is dispatching
    next_id,                \* history: number of alerts enqueued so far, plus one
    life,                   \* history: what happened to every enqueued alert
    drain,                  \* history: the current / last drain of every caller
    last_prices,            \* PriceCollector.last_prices
    price_history,          \* PriceCollector.price_history
    db_price_history,       \* table price_history of the database, per metal
    all_results,            \* all_results of the last collect_all_prices
    merged,                 \* the value returned by the last collect_all_prices
    cycle,                  \* history: number of collection cycles completed
    tasks,                  \* the fetch_with_retry tasks handed to asyncio.gather
    completed,              \* history: the tasks of the cycle in the order they settled
    collect_pc,             \* where collect_all_prices is: idle, gather or raised
    fetch,                  \* one call of fetch_with_retry of one PriceSource
    candidates,             \* history: the alerts of the last evaluation pass
    restarts,               \* history: number of process restarts
    levels,                 \* TechnicalAnalyzer.levels
    pivots,                 \* TechnicalAnalyzer.pivots
    technical_levels,       \* table technical_levels of the database
    checks,                 \* what the last check of the levels returned
    _stopped,               \* OpusDeiTradeMetaLApp._stopped
    loop_closed,            \* asyncio.run has cancelled the tasks and closed the loop
    authorized_chat,        \* TelegramBot.authorized_chat
    delivered               \* history: the alerts the messaging API has accepted

alertVars == <<alert_queue, alerts_sent_this_hour, hour_start, user_config,
               db_config, alerts_sent, pc, cur, next_id, life, drain>>
gatherVars == <<tasks, completed, collect_pc>>
fetchVars == <<fetch>>
passVars == <<candidates>>
priceVars == <<last_prices, price_history, db_price_history, all_results, merged, cycle,
               gatherVars, fetchVars, passVars>>
techVars == <<levels, pivots, technical_levels, checks>>
stopVars == <<_stopped, loop_closed>>
botVars == <<authorized_chat, delivered>>
vars == <<now, restarts, alertVars, priceVars, techVars, stopVars, botVars>>

(***************************************************************************)
(* Bounds of the model.                                                    *)
(***************************************************************************)
\* The cap of _check_rate_limit is the literal 50 (alerts.py:121).  The code
\* uses it only in the comparison alerts_sent_this_hour < 50, so the model
\* scales it down to keep the queue that exceeds it small.
RateCap == 2
\* Alerts enqueued in one run.
MaxAlerts == 3
\* The clock stops advancing here (seconds).
MaxNow == 3600
\* Process restarts in one run.
MaxRestarts == 1
\* Collection cycles in one run.
MaxCycles == 2

\* Python's None for a string-valued field; an Optional object is the empty
\* sequence (None) or a one-element sequence.
None == "None"
HourSeconds == 3600
\* The steps by which the clock advances (seconds).
TickSteps == {1800}
\* /silenciar arguments (minutes), /filtrar arguments, the callers of
\* process_queue (two of the scheduled jobs of main.py).
SilenceMinutes == {30}
FilterChoices == {{}, {"XAG"}, {"xag"}}
Callers == {"job_collect_prices", "job_collect_technical"}
\* Inputs of the rule functions.
AlertMetals == {"XAU"}
Changes == {3, 12, 25}
Timeframes == {15, 60}

(***************************************************************************)
(* config/settings.py                                                      *)
(***************************************************************************)
\* AlertLevel, in the enumeration order of the class.
AlertLevel == <<"CRITICO", "IMPORTANTE", "INFO">>

\* ALERT_THRESHOLDS; percent_change in tenths of a percent.
ALERT_THRESHOLDS ==
    [l \in {"CRITICO", "IMPORTANTE", "INFO"} |->
        CASE l = "CRITICO"    -> [timeframe_minutes |-> 15,   percent_change |-> 20]
          [] l = "IMPORTANTE" -> [timeframe_minutes |-> 60,   percent_change |-> 10]
          [] l = "INFO"       -> [timeframe_minutes |-> 1440, percent_change |-> 5]]

Abs(x) == IF x < 0 THEN -x ELSE x

\* str.upper(), on the strings of the model.
Upper(s) ==
    CASE s = "xau" -> "XAU"
      [] s = "xag" -> "XAG"
      [] OTHER -> s

(***************************************************************************)
(* processors/alerts.py: building candidates                               *)
(***************************************************************************)
utcnow == now

\* _generate_hash: md5 of "<content>:<YYYYMMDDHH>".  The digest is modelled
\* by the pair it is computed from (md5 is taken to be collision free).
_generate_hash_by_day(content) == <<content, utcnow \div (24 * HourSeconds)>>

_generate_hash(content) == <<content, utcnow \div HourSeconds>>

\* process_price_change: the first level, in enumeration order, whose
\* timeframe covers timeframe_minutes and whose threshold is met.
PriceLevel(change_percent, timeframe_minutes) ==
    LET hit(i) == /\ timeframe_minutes <= ALERT_THRESHOLDS[AlertLevel[i]].timeframe_minutes
                  /\ Abs(change_percent) >= ALERT_THRESHOLDS[AlertLevel[i]].percent_change
        hits == {i \in 1..Len(AlertLevel) : hit(i)}
    IN  IF hits = {} THEN None
        ELSE AlertLevel[CHOOSE i \in hits : \A j \in hits : i <= j]

process_price_change(metal, change_percent, timeframe_minutes) ==
    LET level == PriceLevel(change_percent, timeframe_minutes)
    IN  IF level = None THEN <<>>
        ELSE <<[level        |-> level,
                alert_type   |-> "price",
                metal        |-> metal,
                content_hash |-> _generate_hash(<<"price", metal, level>>),
                priority     |-> IF level = "CRITICO" THEN 3
                                 ELSE IF level = "IMPORTANTE" THEN 2 ELSE 1,
                requires_llm |-> level = "CRITICO"]>>

\* process_calendar_event: no target metal.
process_calendar_event(title, alert_type) ==
    <<[level        |-> CASE alert_type = "7d" -> "INFO"
                          [] alert_type = "1d" -> "IMPORTANTE"
                          [] alert_type = "1h" -> "IMPORTANTE"
                          [] OTHER             -> "CRITICO",
       alert_type   |-> "calendar",
       metal        |-> None,
       content_hash |-> _generate_hash(<<"cal", title, alert_type>>),
       priority     |-> IF alert_type \in {"1h", "result"} THEN 2 ELSE 1,
       requires_llm |-> FALSE]>>

(***************************************************************************)
(* processors/alerts.py: suppression, filter, rate limit                   *)
(***************************************************************************)
_is_silenced_switch_only == ~user_config.alertas_ativos

_is_silenced ==
    IF ~user_config.alertas_ativos THEN TRUE
    ELSE IF user_config.silenciado_ate # <<>>
         THEN utcnow < user_config.silenciado_ate[1]
         ELSE FALSE

\* _should_filter_metal: both sides of the membership test are upper-cased.
_should_filter_metal_case_sensitive(metal) ==
    IF user_config.filtros = {} THEN FALSE
    ELSE metal \notin user_config.filtros

_should_filter_metal(metal) ==
    IF user_config.filtros = {} THEN FALSE
    ELSE Upper(metal) \notin {Upper(f) : f \in user_config.filtros}

\* _check_rate_limit, as a function of the counter and the window start it
\* reads: the values it leaves in them and the boolean it returns.
_check_rate_limit_strict(count, start) ==
    LET reset == (utcnow - start) >= HourSeconds
        c     == IF reset THEN 0 ELSE count
    IN  [count |-> c, start |-> IF reset THEN utcnow ELSE start, ok |-> c <= RateCap]

_check_rate_limit_early_reset(count, start) ==
    LET reset == (utcnow - start) < HourSeconds
        c     == IF reset THEN 0 ELSE count
    IN  [count |-> c, start |-> IF reset THEN utcnow ELSE start, ok |-> c < RateCap]

_check_rate_limit(count, start) ==
    LET reset == (utcnow - start) >= HourSeconds
        c     == IF reset THEN 0 ELSE count
    IN  [count |-> c, start |-> IF reset THEN utcnow ELSE start, ok |-> c < RateCap]

\* Database.is_alert_sent
is_alert_sent(content_hash) == content_hash \in alerts_sent

\* Database.mark_alert_sent: INSERT, a duplicate hash is ignored (UNIQUE).
mark_alert_sent(content_hash) == alerts_sent \cup {content_hash}

\* The try block of process_queue: mark_alert_sent comes after the awaited
\* send_callback, so it runs only when the callback returned.
ledger_after_send_always(returned, content_hash) == mark_alert_sent(content_hash)

ledger_after_send(returned, content_hash) ==
    IF returned THEN mark_alert_sent(content_hash) ELSE alerts_sent

\* list.sort(key=priority, reverse=True): stable, descending.
InsertByPriority(s, a) ==
    LET k == Cardinality({i \in 1..Len(s) : s[i].priority >= a.priority})
    IN  SubSeq(s, 1, k) \o <<a>> \o SubSeq(s, k + 1, Len(s))

Unsorted(q) == q

RECURSIVE SortByPriority(_)
SortByPriority(q) ==
    IF q = <<>> THEN <<>>
    ELSE InsertByPriority(SortByPriority(SubSeq(q, 1, Len(q) - 1)), q[Len(q)])

(***************************************************************************)
(* History variables                                                       *)
(***************************************************************************)
\* The drain a caller has in progress: the queue length it started with, the
\* number of alerts it has popped, whether no alert was enqueued since it
\* started (noenq), and whether it is a drain in isolation (clean): started
\* on alerts of equal priority with a counter of zero and no other drain in
\* progress, and since then no enqueue, no other drain, no failed send and
\* no window reset.
NoDrain == [M |-> 0, nsent |-> 0, noenq |-> TRUE, clean |-> TRUE]

Ids(q) == {q[i].id : i \in 1..Len(q)}
Priorities(q) == {q[i].priority : i \in 1..Len(q)}
SetLife(lf, ids, st) ==
    [i \in 1..Len(lf) |-> IF i \in ids THEN [lf[i] EXCEPT !.st = st] ELSE lf[i]]
Running(p) == pc[p] # "idle"

\* The metals the technical analyzer is followed on, and its dicts when it is
\* constructed: levels.get(metal, []) is <<>>, pivots.get(metal) is <<>>.
TechMetals == {"XAU"}
NoLevels == [m \in TechMetals |-> <<>>]
NoPivots == [m \in TechMetals |-> <<>>]

(***************************************************************************)
(* AlertProcessor.queue_alert                                              *)
(***************************************************************************)
queue_alert(alert) ==
    /\ next_id <= MaxAlerts
    /\ IF alert = <<>>
       THEN UNCHANGED <<alert_queue, next_id, life, drain>>
       ELSE IF alert[1].metal # None /\ _should_filter_metal(alert[1].metal)
       THEN UNCHANGED <<alert_queue, next_id, life, drain>>
       ELSE IF is_alert_sent(alert[1].content_hash)
       THEN UNCHANGED <<alert_queue, next_id, life, drain>>
       ELSE LET a == [id |-> next_id] @@ alert[1]
            IN  /\ alert_queue' = Append(alert_queue, a)
                /\ next_id' = next_id + 1
                /\ life' = Append(life, [alert |-> a, st |-> "queued", t |-> 0,
                                         capped |-> FALSE,
                                         bucket |-> utcnow \div HourSeconds,
                                         filtros |-> user_config.filtros,
                                         llm |-> <<>>])
                /\ drain' = [p \in Callers |->
                                IF Running(p)
                                THEN [drain[p] EXCEPT !.noenq = FALSE, !.clean = FALSE]
                                ELSE drain[p]]
    /\ UNCHANGED <<now, restarts, techVars, stopVars, botVars, alerts_sent_this_hour, hour_start, user_config,
                   db_config, alerts_sent, pc, cur, priceVars>>

(***************************************************************************)
(* AlertProcessor.process_queue                                            *)
(***************************************************************************)
\* list.pop(0): what is left of the queue once its head is taken.
pop_keeps(q) == q

pop(q) == Tail(q)

\* The head of the while loop, entered by caller p with queue q; lf, dr and d
\* are the history (life, drain, p's drain record) as the step has left them
\* and first tells the first iteration.  The loop ends when the queue is
\* empty or the rate limit is hit; otherwise the head of the queue is popped
\* and its dispatch starts.
Loop(p, q, lf, dr, d, first) ==
    IF q = <<>>
    THEN /\ alert_queue' = q
         /\ pc' = [pc EXCEPT ![p] = "idle"]
         /\ cur' = [cur EXCEPT ![p] = <<>>]
         /\ life' = lf
         /\ drain' = [dr EXCEPT ![p] = NoDrain]
         /\ UNCHANGED <<alerts_sent_this_hour, hour_start>>
    ELSE LET r  == _check_rate_limit(alerts_sent_this_hour, hour_start)
             d1 == IF first
                   THEN [d EXCEPT !.clean = d.clean /\ r.count = 0]
                   ELSE [d EXCEPT !.clean = d.clean /\ r.start = hour_start]
         IN  /\ alerts_sent_this_hour' = r.count
             /\ hour_start' = r.start
             /\ IF ~r.ok
                THEN /\ alert_queue' = q
                     /\ pc' = [pc EXCEPT ![p] = "idle"]
                     /\ cur' = [cur EXCEPT ![p] = <<>>]
                     /\ life' = [i \in 1..Len(lf) |->
                                   IF i \in Ids(q) /\ d1.clean
                                   THEN [lf[i] EXCEPT !.capped = TRUE] ELSE lf[i]]
                     /\ drain' = [dr EXCEPT ![p] = NoDrain]
                ELSE /\ alert_queue' = pop(q)
                     /\ pc' = [pc EXCEPT ![p] = "send"]
                     /\ cur' = [cur EXCEPT ![p] = <<Head(q)>>]
                     /\ life' = SetLife(lf, {Head(q).id}, "inflight")
                     /\ drain' = [dr EXCEPT ![p] = [d1 EXCEPT !.nsent = d.nsent + 1]]

\* list.clear()
Cleared(q) == <<>>

\* process_queue from the call to the first await: the empty-queue return,
\* the suppression branch (clear the queue), the sort, the first iteration.
process_queue(p) ==
    /\ pc[p] = "idle"
    /\ IF alert_queue = <<>>
       THEN UNCHANGED <<alert_queue, alerts_sent_this_hour, hour_start, pc, cur, life, drain>>
       ELSE IF _is_silenced
       THEN /\ alert_queue' = Cleared(alert_queue)
            /\ life' = SetLife(life, Ids(alert_queue) \ Ids(alert_queue'), "discarded")
            /\ UNCHANGED <<alerts_sent_this_hour, hour_start, pc, cur, drain>>
       ELSE LET q  == SortByPriority(alert_queue)
                alone == \A o \in Callers \ {p} : ~Running(o)
                d  == [NoDrain EXCEPT !.M = Len(q),
                                      !.clean = alone /\ Cardinality(Priorities(q)) = 1]
                dr == [o \in Callers |->
                         IF o # p /\ Running(o) THEN [drain[o] EXCEPT !.clean = FALSE]
                         ELSE drain[o]]
            IN  Loop(p, q, life, dr, d, TRUE)
    /\ UNCHANGED <<now, restarts, techVars, stopVars, botVars, user_config, db_config, alerts_sent, next_id, priceVars>>

\* await self.send_callback(alert.message) returns: mark_alert_sent, count,
\* then await asyncio.sleep(0.5).
callback_returned(p) ==
    /\ pc[p] = "send"
    /\ alerts_sent' = ledger_after_send(TRUE, cur[p][1].content_hash)
    /\ alerts_sent_this_hour' = alerts_sent_this_hour + 1
    /\ pc' = [pc EXCEPT ![p] = "sleep"]
    /\ life' = [life EXCEPT ![cur[p][1].id] = [@ EXCEPT !.st = "sent", !.t = now]]
    /\ UNCHANGED <<now, restarts, techVars, stopVars, authorized_chat, alert_queue, hour_start,
                   user_config, db_config, cur, next_id, drain, priceVars>>

\* The callback is the one the caller of get_alert_processor injected; what
\* it delivered is its own matter.
send_returns(p) ==
    /\ callback_returned(p)
    /\ UNCHANGED delivered

\* The callback main.py injects is TelegramBot.send_message(text), called
\* with no chat_id: it returns without sending when the bot is not
\* initialised or no chat is configured, and it catches what the messaging
\* API raises, so it returns to process_queue in every case.  api tells
\* what bot.send_message does.
bot == <<"Bot">>
ApiOutcomes == {"ok", "raises"}
send_message(p, api) ==
    /\ callback_returned(p)
    /\ LET target == authorized_chat
       IN  IF bot = <<>> THEN UNCHANGED delivered
           ELSE IF target = <<>> THEN UNCHANGED delivered
           ELSE IF api = "raises" THEN UNCHANGED delivered
           ELSE delivered' = delivered \cup {cur[p][1].id}

\* await self.send_callback(alert.message) raises: the except clause logs the
\* error and the while loop goes on with the next alert.
send_raises(p) ==
    /\ pc[p] = "send"
    /\ Loop(p, alert_queue, SetLife(life, {cur[p][1].id}, "failed"), drain,
            [drain[p] EXCEPT !.clean = FALSE], FALSE)
    /\ alerts_sent' = ledger_after_send(FALSE, cur[p][1].content_hash)
    /\ UNCHANGED <<now, restarts, techVars, stopVars, botVars, user_config, db_config, next_id, priceVars>>

\* _enrich_with_llm(alert), given what llm.get_stats() does (raises, or
\* returns the remaining quota) and what the analyze_* call does (raises,
\* returns nothing or returns a text): the call raises, or returns the
\* alert with or without llm_analysis in its context.  called tells whether
\* an analyze_* method of the client was called: the alert types price,
\* technical and event have one, any other type gets analysis = None.
\* First the same without the reserve kept for the critical alerts.
StatsOutcomes == {"raises", "0", "50", "900"}
AnalysisOutcomes == {"raises", "nothing", "text"}
RemainingOf(stats) == CASE stats = "0" -> 0 [] stats = "50" -> 50 [] OTHER -> 900

_enrich_with_llm_no_reserve(alert, stats, analysis) ==
    LET skipped == [raised |-> FALSE, called |-> FALSE, enriched |-> FALSE]
    IN  IF ~alert.requires_llm THEN skipped
        ELSE IF stats = "raises"
        THEN [raised |-> TRUE, called |-> FALSE, enriched |-> FALSE]
        ELSE IF RemainingOf(stats) <= 0 THEN skipped
        ELSE IF alert.alert_type \in {"price", "technical", "event"}
        THEN [raised |-> FALSE, called |-> TRUE, enriched |-> analysis = "text"]
        ELSE skipped

_enrich_with_llm(alert, stats, analysis) ==
    LET skipped == [raised |-> FALSE, called |-> FALSE, enriched |-> FALSE]
    IN  IF ~alert.requires_llm THEN skipped
        ELSE IF stats = "raises"
        THEN [raised |-> TRUE, called |-> FALSE, enriched |-> FALSE]
        ELSE IF RemainingOf(stats) <= 0 THEN skipped
        ELSE IF alert.level # "CRITICO" /\ RemainingOf(stats) < 100 THEN skipped
        ELSE IF alert.alert_type \in {"price", "technical", "event"}
        THEN [raised |-> FALSE, called |-> TRUE, enriched |-> analysis = "text"]
        ELSE skipped

\* await self._enrich_with_llm(alert) raises: send_callback is not called
\* for the popped alert, the except clause logs the error and the while
\* loop goes on with the next alert.  The other outcomes of the enrichment
\* lead to the call of send_callback, which send_returns and send_raises end.
enrich_raises(p) ==
    /\ pc[p] = "send"
    /\ \E stats \in StatsOutcomes, analysis \in AnalysisOutcomes :
          _enrich_with_llm(cur[p][1], stats, analysis).raised
    /\ Loop(p, alert_queue, SetLife(life, {cur[p][1].id}, "dropped"), drain,
            [drain[p] EXCEPT !.clean = FALSE], FALSE)
    /\ UNCHANGED <<now, restarts, techVars, stopVars, botVars, user_config, db_config, alerts_sent, next_id, priceVars>>

\* await self._enrich_with_llm(alert) returns: the history of the alert
\* keeps the quota the lookup found and whether the client was called; the
\* call of send_callback follows.
enrich_returns(p) ==
    /\ pc[p] = "send"
    /\ life[cur[p][1].id].llm = <<>>
    /\ \E stats \in StatsOutcomes \ {"raises"}, analysis \in AnalysisOutcomes :
          LET r == _enrich_with_llm(cur[p][1], stats, analysis)
          IN  life' = [life EXCEPT ![cur[p][1].id].llm =
                          <<[remaining |-> RemainingOf(stats), called |-> r.called,
                             enriched |-> r.enriched]>>]
    /\ UNCHANGED <<now, restarts, techVars, stopVars, botVars, alert_queue, alerts_sent_this_hour,
                   hour_start, user_config, db_config, alerts_sent, pc, cur, next_id,
                   drain, priceVars>>

\* asyncio.sleep(0.5) is over: back to the head of the while loop.
sleep_returns(p) ==
    /\ pc[p] = "sleep"
    /\ Loop(p, alert_queue, life, drain, drain[p], FALSE)
    /\ UNCHANGED <<now, restarts, techVars, stopVars, botVars, user_config, db_config, alerts_sent, next_id, priceVars>>

(***************************************************************************)
(* Configuration: AlertProcessor.update_config and the control commands    *)
(***************************************************************************)
\* update_config(key, value): the in-memory copy and the database.
update_config(cfg, key, value) == [cfg EXCEPT ![key] = value]

\* silence(minutes), called by cmd_silenciar.
silence(minutes) ==
    /\ user_config' = update_config(user_config, "silenciado_ate", <<utcnow + minutes * 60>>)
    /\ db_config' = update_config(db_config, "silenciado_ate", <<utcnow + minutes * 60>>)
    /\ UNCHANGED <<now, restarts, techVars, stopVars, botVars, alert_queue, alerts_sent_this_hour, hour_start,
                   alerts_sent, pc, cur, next_id, life, drain, priceVars>>

\* unsilence(), called by cmd_ativar.
unsilence ==
    /\ user_config' = update_config(update_config(user_config, "silenciado_ate", <<>>),
                                    "alertas_ativos", TRUE)
    /\ db_config' = update_config(update_config(db_config, "silenciado_ate", <<>>),
                                  "alertas_ativos", TRUE)
    /\ UNCHANGED <<now, restarts, techVars, stopVars, botVars, alert_queue, alerts_sent_this_hour, hour_start,
                   alerts_sent, pc, cur, next_id, life, drain, priceVars>>

\* set_filter(metals), called by cmd_filtrar: the list is stored upper-cased.
set_filter(metals) ==
    /\ user_config' = update_config(user_config, "filtros", {Upper(f) : f \in metals})
    /\ db_config' = update_config(db_config, "filtros", {Upper(f) : f \in metals})
    /\ UNCHANGED <<now, restarts, techVars, stopVars, botVars, alert_queue, alerts_sent_this_hour, hour_start,
                   alerts_sent, pc, cur, next_id, life, drain, priceVars>>

\* cmd_pausartudo: db.set_config("alertas_ativos", False), nothing else.
cmd_pausartudo ==
    /\ db_config' = [db_config EXCEPT !["alertas_ativos"] = FALSE]
    /\ UNCHANGED <<now, restarts, techVars, stopVars, botVars, alert_queue, alerts_sent_this_hour, hour_start,
                   user_config, alerts_sent, pc, cur, next_id, life, drain, priceVars>>

\* cmd_despausar: db.set_config of both keys, nothing else.
cmd_despausar ==
    /\ db_config' = [db_config EXCEPT !["alertas_ativos"] = TRUE,
                                      !["silenciado_ate"] = <<>>]
    /\ UNCHANGED <<now, restarts, techVars, stopVars, botVars, alert_queue, alerts_sent_this_hour, hour_start,
                   user_config, alerts_sent, pc, cur, next_id, life, drain, priceVars>>

\* _load_user_config: the copy AlertProcessor.__init__ takes of the database.
_load_user_config == db_config

\* The process is started again: AlertProcessor.__init__ on the same database.
\* The queue and the drains in progress are lost with the old process, and
\* TechnicalAnalyzer.__init__ starts with no levels in memory.
Restart ==
    /\ restarts < MaxRestarts
    /\ restarts' = restarts + 1
    /\ alert_queue' = <<>>
    /\ alerts_sent_this_hour' = 0
    /\ hour_start' = utcnow
    /\ user_config' = _load_user_config
    /\ pc' = [p \in Callers |-> "idle"]
    /\ cur' = [p \in Callers |-> <<>>]
    /\ life' = [i \in 1..Len(life) |->
                  IF life[i].st \in {"queued", "inflight"}
                  THEN [life[i] EXCEPT !.st = "lost"] ELSE life[i]]
    /\ drain' = [p \in Callers |-> NoDrain]
    /\ levels' = NoLevels
    /\ pivots' = NoPivots
    /\ UNCHANGED <<now, db_config, alerts_sent, next_id, priceVars,
                   technical_levels, checks, stopVars, botVars>>

\* Time passes.
Tick(d) ==
    /\ now + d <= MaxNow
    /\ now' = now + d
    /\ UNCHANGED <<restarts, techVars, stopVars, botVars, alertVars, priceVars>>

(***************************************************************************)
(* main.py: the shutdown of the application                                *)
(***************************************************************************)
\* OpusDeiTradeMetaLApp.stop, the task the signal handler of SIGINT and
\* SIGTERM creates: it returns when _stopped is set already, else it sets
\* the event, which wakes start(), and shuts the scheduler and the bot
\* down.  process_queue reads neither the event nor any other flag.
stop ==
    /\ ~loop_closed
    /\ ~_stopped
    /\ _stopped' = TRUE
    /\ UNCHANGED <<now, restarts, alertVars, priceVars, techVars, loop_closed, botVars>>

\* The drains as asyncio.run leaves them when it cancels the tasks that are
\* left: CancelledError is raised at the await the task is suspended on; it
\* is no Exception, so neither the except clause of process_queue nor the
\* one of the job catches it.  A drain suspended on the send loses the alert
\* it popped (no mark_alert_sent); one suspended on the sleep has sent and
\* recorded its alert.  The alerts left in the queue stay there.
Cancelled(lf) ==
    SetLife(lf, {cur[p][1].id : p \in {c \in Callers : pc[c] = "send"}}, "cancelled")

\* start() returns once _stopped is set, main() returns after it, and
\* asyncio.run(main()) cancels every task that is left and closes the loop.
main_returns ==
    /\ _stopped
    /\ ~loop_closed
    /\ loop_closed' = TRUE
    /\ pc' = [p \in Callers |-> "idle"]
    /\ cur' = [p \in Callers |-> <<>>]
    /\ life' = Cancelled(life)
    /\ drain' = [p \in Callers |-> NoDrain]
    /\ UNCHANGED <<now, restarts, alert_queue, alerts_sent_this_hour, hour_start,
                   user_config, db_config, alerts_sent, next_id, priceVars,
                   techVars, _stopped, botVars>>

(***************************************************************************)
(* collectors/prices.py: the price fusion engine                           *)
(***************************************************************************)
\* The instrument keys of the model: gold, silver as quoted by the western
\* adapters and as quoted by the Shanghai adapter, whose PriceData carries
\* metal "XAG" under the key "XAG_SGE".
Keys == {"XAU", "XAG", "XAG_SGE"}

\* PriceCollector.price_limits, for the metals of the model.
price_limits ==
    [m \in {"XAU", "XAG"} |->
        IF m = "XAU" THEN [min_price |-> 1000, max_price |-> 5000]
        ELSE [min_price |-> 10, max_price |-> 100]]

RetentionSeconds == 172800
SuspiciousChange == 20

\* A dict keyed by instrument: dict.get(k) is <<>> (None) or <<value>>.
NoPrices == [k \in Keys |-> <<>>]

\* PriceData, with the fields the engine reads; volume is None (<<>>) unless the
\* adapter sets it.
PriceData(metal, price, reliability, timestamp, change_percent) ==
    [metal |-> metal, price |-> price, reliability |-> reliability,
     timestamp |-> timestamp, change_percent |-> change_percent, volume |-> <<>>]

\* A row of table price_history: db.add_price(code, price, volume).
HistoryRow(price, volume) == [price |-> price, volume |-> volume]

\* What fetch_with_retry of an adapter can hand to asyncio.gather: an
\* exception, an empty dict, or a dict with the adapter's keys.
Failed == [failed |-> TRUE, prices |-> NoPrices]
Returned(d) == [failed |-> FALSE, prices |-> d]
One(code, price_data) == [NoPrices EXCEPT ![code] = <<price_data>>]

\* Kitco: reliability 90 from the main page, 85 and 80 from its fallbacks.
KitcoSource ==
    {Returned(NoPrices)} \cup
    {Returned(One("XAG", PriceData("XAG", p, r, now + 1, 0))) :
        p \in {50, 500}, r \in {80, 85, 90}}

\* Yahoo: reliability 85; its quote is older or newer than Kitco's.
YahooFinanceSource ==
    {Returned(NoPrices)} \cup
    {Returned(One("XAG", PriceData("XAG", q[1], 85, now + t, q[2]))) :
        q \in {<<60, 0>>, <<60, 25>>, <<500, 0>>}, t \in {0, 2}}

ShanghaiGoldExchangeSource ==
    {Failed, Returned(NoPrices)} \cup
    {Returned(One("XAG_SGE", PriceData("XAG", p, 80, now, 0))) : p \in {50, 500}}

\* _validate_price: the band is looked up by price_data.metal; a percent
\* change above 20 is logged and accepted.
_validate_price_no_upper(price_data) ==
    IF price_data.metal \notin DOMAIN price_limits THEN TRUE
    ELSE price_limits[price_data.metal].min_price <= price_data.price

_validate_price(price_data) ==
    IF price_data.metal \notin DOMAIN price_limits THEN TRUE
    ELSE LET limits == price_limits[price_data.metal]
         IN  IF ~(limits.min_price <= price_data.price
                    /\ price_data.price <= limits.max_price)
             THEN FALSE
             ELSE IF Abs(price_data.change_percent) > SuspiciousChange
                  THEN TRUE     \* logged, not rejected
                  ELSE TRUE

\* The comparison of _merge_prices: price_data takes the place of existing.
_replaces_on_reliability(price_data, existing) ==
    price_data.reliability >= existing.reliability

_replaces(price_data, existing) ==
    IF price_data.reliability > existing.reliability THEN TRUE
    ELSE IF price_data.reliability = existing.reliability
         THEN price_data.timestamp > existing.timestamp
         ELSE FALSE

\* One pass of the inner loop of _merge_prices over the items of a result.
MergeResult(m, result) ==
    [code \in Keys |->
        IF result[code] = <<>> THEN m[code]
        ELSE IF ~_validate_price(result[code][1]) THEN m[code]
        ELSE IF m[code] = <<>> THEN result[code]
        ELSE IF _replaces(result[code][1], m[code][1]) THEN result[code]
        ELSE m[code]]

RECURSIVE MergeFrom(_, _, _)
MergeFrom(results, i, m) ==
    IF i > Len(results) THEN m
    ELSE MergeFrom(results, i + 1, MergeResult(m, results[i]))

_merge_prices(results) == MergeFrom(results, 1, NoPrices)

\* The history list of a code after the append and the pruning.
Pruned_nothing(h, cutoff) == h

Pruned_inclusive(h, cutoff) == SelectSeq(h, LAMBDA e : e[1] >= cutoff)

Pruned(h, cutoff) == SelectSeq(h, LAMBDA e : e[1] > cutoff)

\* self.last_prices[code] = price_data, for the codes of merged.
replace_last_prices(last, m) == m

update_last_prices(last, m) ==
    [code \in Keys |-> IF m[code] # <<>> THEN m[code] ELSE last[code]]

\* collect_all_prices, from the return of asyncio.gather to the end.
collect_all_prices(results) ==
    LET kept == SelectSeq(results, LAMBDA r : ~r.failed /\ r.prices # NoPrices)
    IN  /\ cycle < MaxCycles
        /\ all_results' = [i \in 1..Len(kept) |-> kept[i].prices]
        /\ merged' = _merge_prices(all_results')
        /\ last_prices' = update_last_prices(last_prices, merged')
        /\ db_price_history' =
              [code \in Keys |->
                  IF merged'[code] # <<>>
                  THEN Append(db_price_history[code],
                              HistoryRow(merged'[code][1].price, merged'[code][1].volume))
                  ELSE db_price_history[code]]
        /\ price_history' =
              [code \in Keys |->
                  IF merged'[code] # <<>>
                  THEN Pruned(Append(price_history[code], <<now, merged'[code][1].price>>),
                              now - RetentionSeconds)
                  ELSE price_history[code]]
        /\ cycle' = cycle + 1
        /\ UNCHANGED <<now, restarts, techVars, stopVars, botVars, alertVars>>

\* get_last_price
get_last_price(metal) == last_prices[metal]

\* The retention window passes.
Elapse ==
    /\ now < RetentionSeconds
    /\ now' = now + RetentionSeconds
    /\ UNCHANGED <<restarts, techVars, stopVars, botVars, alertVars, priceVars>>

(***************************************************************************)
(* calculate_change, check_price_alerts and the pass of job_collect_prices *)
(***************************************************************************)
\* METAIS.keys(), for the metals of the model.
METAIS == <<"XAU", "XAG">>

\* (change_value / old_price) * 100 if old_price else 0, in tenths of a
\* percent; the magnitude is truncated, which keeps every comparison of
\* abs(change_percent) with a threshold that is a whole number of tenths.
Percent(change_value, old_price) ==
    IF old_price = 0 THEN 0
    ELSE IF change_value < 0 THEN -((-change_value * 1000) \div old_price)
    ELSE (change_value * 1000) \div old_price

\* calculate_change: None, or the pair (change_percent, change_value).
calculate_change_from_first(metal, minutes) ==
    LET history == IF Upper(metal) \in Keys THEN price_history[Upper(metal)] ELSE <<>>
        cutoff == utcnow - minutes * 60
        old_prices == SelectSeq(history, LAMBDA e : e[1] <= cutoff)
    IN  IF history = <<>> \/ old_prices = <<>> THEN <<>>
        ELSE <<[change_percent |-> Percent(history[Len(history)][2] - old_prices[1][2],
                                           old_prices[1][2]),
                change_value |-> history[Len(history)][2] - old_prices[1][2]]>>

calculate_change(metal, minutes) ==
    LET history == IF Upper(metal) \in Keys THEN price_history[Upper(metal)] ELSE <<>>
        cutoff == utcnow - minutes * 60
        old_prices == SelectSeq(history, LAMBDA e : e[1] <= cutoff)
    IN  IF history = <<>> THEN <<>>
        ELSE IF old_prices = <<>> THEN <<>>
        ELSE LET current_price == history[Len(history)][2]
                 old_price == old_prices[Len(old_prices)][2]
                 change_value == current_price - old_price
             IN  <<[change_percent |-> Percent(change_value, old_price),
                    change_value |-> change_value]>>

\* check_price_alerts: for every metal every level is tried, on the change
\* over the level's own timeframe; the result is the list of alert dicts.
RECURSIVE Flatten(_)
Flatten(ss) == IF ss = <<>> THEN <<>> ELSE ss[1] \o Flatten(SubSeq(ss, 2, Len(ss)))

check_price_alerts ==
    LET tried(metal, level) ==
            LET threshold == ALERT_THRESHOLDS[level]
                change == calculate_change(metal, threshold.timeframe_minutes)
            IN  IF change # <<>>
                   /\ Abs(change[1].change_percent) >= threshold.percent_change
                   /\ get_last_price(metal) # <<>>
                THEN <<[level |-> level, metal |-> metal,
                        change_percent |-> change[1].change_percent,
                        change_value |-> change[1].change_value,
                        current_price |-> get_last_price(metal)[1].price,
                        timeframe_minutes |-> threshold.timeframe_minutes]>>
                ELSE <<>>
    IN  Flatten([m \in 1..Len(METAIS) |->
            Flatten([l \in 1..Len(AlertLevel) |-> tried(METAIS[m], AlertLevel[l])])])

\* for minutes in (15, 60, 1440), in job_collect_prices.
PassTimeframesWithoutFirst == <<60, 1440>>

PassTimeframes == <<15, 60, 1440>>

\* prices.items(): the keys of the mapping collect_all_prices returned.  The
\* cycles of the pass price one key, so the order among keys plays no part.
PricedCodes == SelectSeq(<<"XAU", "XAG", "XAG_SGE">>, LAMBDA code : merged[code] # <<>>)

\* The body of the two loops of job_collect_prices for one metal and one
\* timeframe: nothing when the change is unavailable, else the timeframe,
\* the change and what process_price_change returned.
Evaluated(metal, minutes) ==
    LET change == calculate_change(metal, minutes)
    IN  IF change = <<>> THEN <<>>
        ELSE <<[metal |-> metal, minutes |-> minutes,
                change_percent |-> change[1].change_percent,
                alert |-> process_price_change(metal, change[1].change_percent, minutes)]>>

\* queue_alert accepts the alert: not None, not filtered, not in the ledger.
Accepts(alert) ==
    /\ alert # <<>>
    /\ ~(alert[1].metal # None /\ _should_filter_metal(alert[1].metal))
    /\ ~is_alert_sent(alert[1].content_hash)

\* job_collect_prices from the return of collect_all_prices to the call of
\* process_queue: every timeframe of every priced metal is evaluated and
\* every alert process_price_change returns goes through queue_alert.
evaluate_prices ==
    /\ candidates.cycle < cycle
    /\ LET evaluated ==
               Flatten([m \in 1..Len(PricedCodes) |->
                   Flatten([t \in 1..Len(PassTimeframes) |->
                       Evaluated(PricedCodes[m], PassTimeframes[t])])])
           accepted == SelectSeq(evaluated, LAMBDA e : Accepts(e.alert))
           queued == [i \in 1..Len(accepted) |->
                         [id |-> next_id + i - 1] @@ accepted[i].alert[1]]
       IN  /\ candidates' = [cycle |-> cycle, evaluated |-> evaluated]
           /\ alert_queue' = alert_queue \o queued
           /\ next_id' = next_id + Len(queued)
           /\ life' = life \o [i \in 1..Len(queued) |->
                                  [alert |-> queued[i], st |-> "queued", t |-> 0,
                                   capped |-> FALSE,
                                   bucket |-> utcnow \div HourSeconds,
                                   filtros |-> user_config.filtros,
                                   llm |-> <<>>]]
           /\ drain' = [p \in Callers |->
                           IF Running(p) /\ queued # <<>>
                           THEN [drain[p] EXCEPT !.noenq = FALSE, !.clean = FALSE]
                           ELSE drain[p]]
    /\ UNCHANGED <<now, restarts, techVars, stopVars, botVars, alerts_sent_this_hour, hour_start, user_config,
                   db_config, alerts_sent, pc, cur, last_prices, price_history,
                   db_price_history, all_results, merged, cycle, gatherVars, fetchVars>>

(***************************************************************************)
(* PriceSource.fetch_with_retry                                            *)
(***************************************************************************)
MaxRetries == 3
MaxFetches == 2

\* The mappings one await of fetch_prices can return; it can also raise.
FetchedPrices ==
    {NoPrices} \cup {One("XAG", PriceData("XAG", p, 90, 0, 0)) : p \in {50, 60}}

\* The entries of the log of a call.
Fetched(prices) == [call |-> "fetch_prices", raised |-> FALSE, prices |-> prices]
Raised == [call |-> "fetch_prices", raised |-> TRUE, prices |-> NoPrices]
Slept(delay) == [call |-> "sleep", delay |-> delay]

\* The frame of a call: attempt is the loop variable, log the calls of
\* fetch_prices and of asyncio.sleep made so far, errors the rows written by
\* db.log_error, result the returned mapping once the call has returned.
\* consecutive_failures and last_success are the attributes of the source
\* and outlive the call; before is the counter as the call found it and
\* fetches counts the calls made to the source.
IdleFetch ==
    [pc |-> "idle", retries |-> 0, attempt |-> 0, consecutive_failures |-> 0,
     last_success |-> <<>>, before |-> 0,
     log |-> <<>>, errors |-> 0, result |-> <<>>, fetches |-> 0]

\* for attempt in range(retries): is there a next value after attempt?
has_next_attempt_inclusive(attempt, retries) == attempt < retries

has_next_attempt(attempt, retries) == attempt + 1 < retries

\* The lines after the loop: db.log_error(...) and return {}.
Exhausted(f) ==
    [f EXCEPT !.pc = "done", !.errors = @ + 1, !.result = <<NoPrices>>]

\* The loop moves to its next attempt and awaits fetch_prices again, or ends.
NextAttempt(f) ==
    IF has_next_attempt(f.attempt, f.retries)
    THEN [f EXCEPT !.pc = "fetch", !.attempt = @ + 1]
    ELSE Exhausted(f)

\* fetch_with_retry(retries) is called and suspends in its first fetch_prices.
fetch_with_retry(retries) ==
    /\ fetch.pc \in {"idle", "done"}
    /\ fetch.fetches < MaxFetches
    /\ LET f == [IdleFetch EXCEPT !.retries = retries,
                                  !.consecutive_failures = fetch.consecutive_failures,
                                  !.last_success = fetch.last_success,
                                  !.before = fetch.consecutive_failures,
                                  !.fetches = fetch.fetches + 1]
       IN  fetch' = IF retries > 0 THEN [f EXCEPT !.pc = "fetch"] ELSE Exhausted(f)
    /\ UNCHANGED <<now, restarts, techVars, stopVars, botVars, alertVars, last_prices, price_history,
                   db_price_history, all_results, merged, cycle, gatherVars, passVars>>

\* fetch_prices returns: a non-empty mapping is returned to the caller, an
\* empty one falls through to the next iteration of the loop.
fetch_prices_returns(prices) ==
    /\ fetch.pc = "fetch"
    /\ LET f == [fetch EXCEPT !.log = Append(@, Fetched(prices))]
       IN  fetch' = IF prices # NoPrices
                    THEN [f EXCEPT !.pc = "done", !.last_success = <<utcnow>>,
                                   !.consecutive_failures = 0,
                                   !.result = <<prices>>]
                    ELSE NextAttempt(f)
    /\ UNCHANGED <<now, restarts, techVars, stopVars, botVars, alertVars, last_prices, price_history,
                   db_price_history, all_results, merged, cycle, gatherVars, passVars>>

\* fetch_prices raises an Exception: the handler counts the failure and
\* sleeps 2 ** attempt seconds unless this was the last attempt.
fetch_prices_raises ==
    /\ fetch.pc = "fetch"
    /\ LET f == [fetch EXCEPT !.log = Append(@, Raised),
                              !.consecutive_failures = @ + 1]
       IN  fetch' = IF f.attempt < f.retries - 1
                    THEN [f EXCEPT !.pc = "sleep",
                                   !.log = Append(@, Slept(2 ^ f.attempt))]
                    ELSE NextAttempt(f)
    /\ UNCHANGED <<now, restarts, techVars, stopVars, botVars, alertVars, last_prices, price_history,
                   db_price_history, all_results, merged, cycle, gatherVars, passVars>>

\* asyncio.sleep returns and the loop goes on.
backoff_ends ==
    /\ fetch.pc = "sleep"
    /\ fetch' = NextAttempt(fetch)
    /\ UNCHANGED <<now, restarts, techVars, stopVars, botVars, alertVars, last_prices, price_history,
                   db_price_history, all_results, merged, cycle, gatherVars, passVars>>

(***************************************************************************)
(* collect_all_prices around asyncio.gather                                *)
(***************************************************************************)
\* self.sources of the model, in priority order, and what the
\* fetch_with_retry task of each one can settle with.
Sources == 1..3

TaskOutcomes ==
    << {Failed, Returned(NoPrices)} \cup
           {Returned(One("XAG", PriceData("XAG", p, 90, now, 0))) : p \in {50, 500}},
       {Failed, Returned(NoPrices),
           Returned(One("XAG", PriceData("XAG", 60, 85, now + 2, 0))),
           Returned(One("XAG", PriceData("XAG", 60, 90, now, 0)))},
       {Failed, Returned(One("XAG_SGE", PriceData("XAG", 50, 80, now, 0)))} >>

Pending == <<>>
Settled(i) == tasks[i] # Pending

\* asyncio.gather(*tasks, return_exceptions=True): the exception of a task
\* is an element of the list it returns.
\* settled are the outcomes of the tasks by position and order the positions
\* in the order the tasks settled; the results come in the order of the
\* awaitables, whatever the order of completion.
gather_propagating(settled, order) ==
    [raised |-> \E i \in DOMAIN settled : settled[i].failed, results |-> settled]

gather_as_completed(settled, order) ==
    [raised |-> FALSE, results |-> [k \in 1..Len(order) |-> settled[order[k]]]]

gather(settled, order) == [raised |-> FALSE, results |-> settled]

\* collect_all_prices up to its await of asyncio.gather: one task per source.
collect_starts ==
    /\ collect_pc = "idle"
    /\ cycle < MaxCycles
    /\ tasks' = [i \in Sources |-> Pending]
    /\ completed' = <<>>
    /\ collect_pc' = "gather"
    /\ UNCHANGED <<now, restarts, techVars, stopVars, botVars, alertVars, last_prices, price_history,
                   db_price_history, all_results, merged, cycle,
                   fetchVars, passVars>>

\* One fetch_with_retry task settles while collect_all_prices is suspended.
task_settles(i) ==
    /\ collect_pc = "gather"
    /\ ~Settled(i)
    /\ \E o \in TaskOutcomes[i] : tasks' = [tasks EXCEPT ![i] = <<o>>]
    /\ completed' = Append(completed, i)
    /\ UNCHANGED <<now, restarts, techVars, stopVars, botVars, alertVars, last_prices, price_history,
                   db_price_history, all_results, merged, cycle, collect_pc,
                   fetchVars, passVars>>

\* asyncio.gather returns once every task has settled, and collect_all_prices
\* runs to its end.
collect_resumes ==
    /\ collect_pc = "gather"
    /\ \A i \in Sources : Settled(i)
    /\ LET g == gather([i \in Sources |-> tasks[i][1]], completed)
       IN  IF g.raised
           THEN /\ collect_pc' = "raised"
                /\ UNCHANGED <<now, restarts, techVars, stopVars, botVars, alertVars, last_prices, price_history,
                               db_price_history, all_results, merged, cycle, tasks, completed,
                               fetchVars, passVars>>
           ELSE /\ collect_all_prices(g.results)
                /\ collect_pc' = "idle"
                /\ UNCHANGED <<tasks, completed, fetchVars, passVars>>

(***************************************************************************)
(* collectors/technical.py: the technical analyzer                         *)
(***************************************************************************)
\* A float is modelled by the exact fraction n/d, d > 0: the rounding of the
\* floating-point operations is left out.
Frac(n, d) == IF d < 0 THEN [n |-> -n, d |-> -d] ELSE [n |-> n, d |-> d]
Num(x) == Frac(x, 1)
Plus(a, b) == Frac(a.n * b.d + b.n * a.d, a.d * b.d)
Minus(a, b) == Frac(a.n * b.d - b.n * a.d, a.d * b.d)
Times(a, b) == Frac(a.n * b.n, a.d * b.d)
\* a / b; b = 0 raises ZeroDivisionError, which no level of a history of
\* positive prices inside the bands of _validate_price produces.
Over(a, b) == Frac(a.n * b.d, a.d * b.n)
Lt(a, b) == a.n * b.d < b.n * a.d
Le(a, b) == a.n * b.d <= b.n * a.d
AbsF(a) == Frac(Abs(a.n), a.d)
\* int(a) for a >= 0.
Floor(a) == a.n \div a.d

RECURSIVE SumSeq(_)
SumSeq(s) == IF s = <<>> THEN 0 ELSE Head(s) + SumSeq(Tail(s))
MaxOf(s) == CHOOSE x \in {s[i] : i \in 1..Len(s)} : \A i \in 1..Len(s) : s[i] <= x
MinOf(s) == CHOOSE x \in {s[i] : i \in 1..Len(s)} : \A i \in 1..Len(s) : x <= s[i]
\* s[-n:] and s[:-1]
LastN(s, n) == IF Len(s) <= n THEN s ELSE SubSeq(s, Len(s) - n + 1, Len(s))
ButLast(s) == SubSeq(s, 1, Len(s) - 1)
\* s[:n]
FirstN(s, n) == IF Len(s) <= n THEN s ELSE SubSeq(s, 1, n)

\* sorted(s, key=..., reverse=True), with key[i] the key of s[i]: the sort
\* is stable, so the element at index i goes behind the elements of greater
\* key and behind the earlier elements of equal key.  sorted(s) of numbers
\* is the same with the negated numbers as keys.
SortedBy(s, key) ==
    LET rank(i) == Cardinality({j \in 1..Len(s) : key[j] > key[i]})
                   + Cardinality({j \in 1..(i - 1) : key[j] = key[i]}) + 1
    IN  [k \in 1..Len(s) |-> s[CHOOSE i \in 1..Len(s) : rank(i) = k]]
Sorted(s) == SortedBy(s, [i \in 1..Len(s) |-> -s[i]])

LevelType == [SUPORTE |-> "suporte", RESISTENCIA |-> "resistencia"]

TechnicalLevel(metal, level_type, name, value, strength, touches) ==
    [metal |-> metal, level_type |-> level_type, name |-> name, value |-> value,
     strength |-> strength, touches |-> touches]

\* calculate_pivot_points with r3 taken from pp - low once, not twice.
calculate_pivot_points_single_r3(high, low, close) ==
    LET pp == Over(Num(high + low + close), Num(3))
    IN  [pp |-> pp,
         r1 |-> Minus(Times(Num(2), pp), Num(low)),
         r2 |-> Plus(pp, Num(high - low)),
         r3 |-> Plus(Num(high), Minus(pp, Num(low))),
         s1 |-> Minus(Times(Num(2), pp), Num(high)),
         s2 |-> Minus(pp, Num(high - low)),
         s3 |-> Minus(Num(low), Times(Num(2), Minus(Num(high), pp)))]

calculate_pivot_points(high, low, close) ==
    LET pp == Over(Num(high + low + close), Num(3))
    IN  [pp |-> pp,
         r1 |-> Minus(Times(Num(2), pp), Num(low)),
         r2 |-> Plus(pp, Num(high - low)),
         r3 |-> Plus(Num(high), Times(Num(2), Minus(pp, Num(low)))),
         s1 |-> Minus(Times(Num(2), pp), Num(high)),
         s2 |-> Minus(pp, Num(high - low)),
         s3 |-> Minus(Num(low), Times(Num(2), Minus(Num(high), pp)))]

\* calculate_sma: <<>> is None.
calculate_sma(prices, period) ==
    IF Len(prices) < period THEN <<>>
    ELSE <<Over(Num(SumSeq(LastN(prices, period))), Num(period))>>

calculate_vwap(prices, volumes) ==
    IF Len(prices) # Len(volumes) \/ prices = <<>> THEN <<>>
    ELSE LET total_value == SumSeq([i \in 1..Len(prices) |-> prices[i] * volumes[i]])
             total_volume == SumSeq(volumes)
         IN  IF total_volume = 0 THEN <<>>
             ELSE <<Over(Num(total_value), Num(total_volume))>>

\* find_high_volume_zones: twenty price bins between the extremes, the
\* volume added up per bin, the bins in the order the dict met them sorted
\* by volume, the centres of the first num_zones.
NumBins == 20
find_high_volume_zones(prices, volumes, num_zones) ==
    IF prices = <<>> \/ volumes = <<>> \/ Len(prices) # Len(volumes) THEN <<>>
    ELSE LET min_price == MinOf(prices)
             max_price == MaxOf(prices)
             bin_size == IF max_price # min_price
                         THEN Over(Num(max_price - min_price), Num(NumBins))
                         ELSE Num(1)
             idx(i) == LET b == Floor(Over(Num(prices[i] - min_price), bin_size))
                       IN  IF b < NumBins - 1 THEN b ELSE NumBins - 1
             first == SelectSeq([i \in 1..Len(prices) |-> i],
                                LAMBDA i : \A j \in 1..(i - 1) : idx(j) # idx(i))
             bins == [k \in 1..Len(first) |->
                        [bin_idx |-> idx(first[k]),
                         total_vol |-> SumSeq([i \in 1..Len(prices) |->
                                                  IF idx(i) = idx(first[k])
                                                  THEN volumes[i] ELSE 0])]]
             sorted_bins == SortedBy(bins, [k \in 1..Len(bins) |-> bins[k].total_vol])
             top == FirstN(sorted_bins, num_zones)
         IN  [k \in 1..Len(top) |->
                 [center_price |-> Plus(Num(min_price),
                                        Times(Plus(Num(top[k].bin_idx), Frac(1, 2)),
                                              bin_size)),
                  total_vol |-> top[k].total_vol]]

\* The local extremes in the order of the series.
IsLocalExtreme(prices, i) ==
    \/ prices[i] > prices[i - 1] /\ prices[i] > prices[i + 1]
    \/ prices[i] < prices[i - 1] /\ prices[i] < prices[i + 1]

LocalExtremes(prices) ==
    LET inner == SelectSeq([i \in 1..Len(prices) |-> i],
                           LAMBDA i : 1 < i /\ i < Len(prices) /\ IsLocalExtreme(prices, i))
    IN  [k \in 1..Len(inner) |-> prices[inner[k]]]

\* tolerance_percent = 0.5 by default, tolerance = tolerance_percent / 100
DefaultTolerance == Frac(5, 1000)

Mean(group) == Over(Num(SumSeq(group)), Num(Len(group)))

\* The grouping loop: an extreme joins the first group whose mean it is
\* within the tolerance of, else it starts a group.
RECURSIVE Grouped(_, _, _)
Grouped(extremes, groups, tolerance) ==
    IF extremes = <<>> THEN groups
    ELSE LET extreme == Head(extremes)
             fits(g) == Le(Over(AbsF(Minus(Num(extreme), Mean(groups[g]))),
                                Mean(groups[g])), tolerance)
             found == {g \in 1..Len(groups) : fits(g)}
         IN  IF found = {}
             THEN Grouped(Tail(extremes), Append(groups, <<extreme>>), tolerance)
             ELSE LET g == CHOOSE x \in found : \A y \in found : x <= y
                  IN  Grouped(Tail(extremes),
                              [groups EXCEPT ![g] = Append(@, extreme)], tolerance)

\* find_multiple_touches with the groups of one member kept.
find_multiple_touches_singletons(prices, tolerance) ==
    IF prices = <<>> \/ LocalExtremes(prices) = <<>> THEN <<>>
    ELSE LET groups == Grouped(Sorted(LocalExtremes(prices)),
                               <<>>, tolerance)
             lvls == [k \in 1..Len(groups) |->
                         [avg_level |-> Mean(groups[k]), touches |-> Len(groups[k])]]
         IN  SortedBy(lvls, [k \in 1..Len(lvls) |-> lvls[k].touches])

find_multiple_touches(prices, tolerance) ==
    IF prices = <<>> \/ LocalExtremes(prices) = <<>> THEN <<>>
    ELSE LET groups == Grouped(Sorted(LocalExtremes(prices)),
                               <<>>, tolerance)
             kept == SelectSeq(groups, LAMBDA g : Len(g) >= 2)
             lvls == [k \in 1..Len(kept) |->
                         [avg_level |-> Mean(kept[k]), touches |-> Len(kept[k])]]
         IN  SortedBy(lvls, [k \in 1..Len(lvls) |-> lvls[k].touches])

\* SUPORTE if current_price > value else RESISTENCIA
Classified(current_price, value) ==
    IF Lt(value, Num(current_price)) THEN LevelType.SUPORTE ELSE LevelType.RESISTENCIA

\* The rows db.get_price_history(metal, hours=24*52) returns, oldest first.
\* The window of 52 days is longer than any run of the model, so it holds
\* every row of the metal.
get_price_history(metal) == db_price_history[metal]

HvZoneNames == <<"hv_zone_1", "hv_zone_2", "hv_zone_3">>
MultiTouchNames == <<"multi_touch_1", "multi_touch_2", "multi_touch_3">>
Least(a, b) == IF a < b THEN a ELSE b

\* The pivot points update_levels_for_metal computes: from the last 96
\* samples without the newest, when there are four samples at least.
PivotsOf(prices) ==
    LET prices_24h == LastN(prices, 96)
    IN  IF Len(prices_24h) >= 4
        THEN <<calculate_pivot_points(MaxOf(ButLast(prices_24h)),
                                      MinOf(ButLast(prices_24h)),
                                      prices_24h[Len(prices_24h) - 1])>>
        ELSE <<>>

\* The list of levels update_levels_for_metal builds from a history that is
\* not empty.
LevelsOf(metal, history) ==
    LET prices == [i \in 1..Len(history) |-> history[i].price]
        volumes == [i \in 1..Len(history) |->
                       IF history[i].volume = <<>> THEN 0 ELSE history[i].volume[1]]
        current_price == prices[Len(prices)]
        long_term ==
            <<TechnicalLevel(metal, LevelType.RESISTENCIA, "max_52w", Num(MaxOf(prices)), 5, 0),
              TechnicalLevel(metal, LevelType.SUPORTE, "min_52w", Num(MinOf(prices)), 5, 0)>>
        sma(name, period, strength) ==
            LET v == calculate_sma(prices, period)
            IN  IF v # <<>> /\ v[1].n # 0
                THEN <<TechnicalLevel(metal, Classified(current_price, v[1]), name,
                                      v[1], strength, 0)>>
                ELSE <<>>
        pv == PivotsOf(prices)
        pivot_levels ==
            IF pv = <<>> THEN <<>>
            ELSE <<TechnicalLevel(metal, Classified(current_price, pv[1].pp), "pivot_pp",
                                  pv[1].pp, 3, 0),
                   TechnicalLevel(metal, LevelType.RESISTENCIA, "pivot_r1", pv[1].r1, 2, 0),
                   TechnicalLevel(metal, LevelType.RESISTENCIA, "pivot_r2", pv[1].r2, 3, 0),
                   TechnicalLevel(metal, LevelType.RESISTENCIA, "pivot_r3", pv[1].r3, 4, 0),
                   TechnicalLevel(metal, LevelType.SUPORTE, "pivot_s1", pv[1].s1, 2, 0),
                   TechnicalLevel(metal, LevelType.SUPORTE, "pivot_s2", pv[1].s2, 3, 0),
                   TechnicalLevel(metal, LevelType.SUPORTE, "pivot_s3", pv[1].s3, 4, 0)>>
        vwap ==
            IF \E i \in 1..Len(volumes) : volumes[i] > 0
            THEN LET v == calculate_vwap(LastN(prices, 96), LastN(volumes, 96))
                 IN  IF v # <<>> /\ v[1].n # 0
                     THEN <<TechnicalLevel(metal, Classified(current_price, v[1]), "vwap",
                                           v[1], 2, 0)>>
                     ELSE <<>>
            ELSE <<>>
        hv_zones == find_high_volume_zones(LastN(prices, 192), LastN(volumes, 192), 3)
        hv_levels ==
            [i \in 1..Len(hv_zones) |->
                TechnicalLevel(metal, Classified(current_price, hv_zones[i].center_price),
                               HvZoneNames[i], hv_zones[i].center_price, 3, 0)]
        multi_touch == FirstN(find_multiple_touches(LastN(prices, 480), DefaultTolerance), 3)
        multi_levels ==
            [i \in 1..Len(multi_touch) |->
                TechnicalLevel(metal, Classified(current_price, multi_touch[i].avg_level),
                               MultiTouchNames[i], multi_touch[i].avg_level,
                               Least(multi_touch[i].touches, 5), multi_touch[i].touches)]
    IN  long_term \o sma("sma_50", 50, 3) \o sma("sma_200", 200, 4) \o pivot_levels
        \o vwap \o hv_levels \o multi_levels

\* db.update_technical_level: INSERT OR REPLACE of one row of the table,
\* whose primary key is (metal, level_type, level_name).
update_technical_level(rows, metal, level_type, level_name, value) ==
    {r \in rows : ~(r.metal = metal /\ r.level_type = level_type
                    /\ r.level_name = level_name)}
    \cup {[metal |-> metal, level_type |-> level_type, level_name |-> level_name,
           value |-> value]}

\* The loop that saves the levels, one row after the other.
RECURSIVE Saved(_, _)
Saved(rows, lvls) ==
    IF lvls = <<>> THEN rows
    ELSE Saved(update_technical_level(rows, Head(lvls).metal, Head(lvls).level_type,
                                      Head(lvls).name, Head(lvls).value),
               Tail(lvls))

\* update_levels_for_metal: the coroutine awaits nothing, so it is one step.
\* With no history it returns and leaves the levels as they are.
update_levels_for_metal(metal) ==
    /\ LET history == get_price_history(metal)
       IN  IF history = <<>>
           THEN UNCHANGED <<levels, pivots, technical_levels>>
           ELSE /\ levels' = [levels EXCEPT ![metal] = LevelsOf(metal, history)]
                /\ pivots' = [pivots EXCEPT ![metal] =
                                 LET pv == PivotsOf([i \in 1..Len(history) |->
                                                        history[i].price])
                                 IN  IF pv = <<>> THEN @ ELSE pv]
                /\ technical_levels' = Saved(technical_levels, levels'[metal])
    /\ UNCHANGED <<now, restarts, alertVars, priceVars, checks, stopVars, botVars>>

\* get_levels_for_metal: the list in memory, under the upper-cased key.
get_levels_for_metal(metal) ==
    IF Upper(metal) \in DOMAIN levels THEN levels[Upper(metal)] ELSE <<>>

\* db.get_technical_levels: the dicts {level_name: value} the rows of the
\* metal can give.  The query has no ORDER BY and the dict keeps the last
\* row of a name, so with two rows of one name either value can be the one
\* returned.
get_technical_levels(metal) ==
    LET rows == {r \in technical_levels : r.metal = Upper(metal)}
        names == {r.level_name : r \in rows}
    IN  {d \in [names -> {r.value : r \in rows}] :
            \A name \in names :
                \E r \in rows : r.level_name = name /\ r.value = d[name]}

TECHNICAL_PROXIMITY_PERCENT == Frac(3, 10)

\* check_proximity_alerts with the distance taken relative to the price.
check_proximity_alerts_by_price(metal, current_price) ==
    LET lvls == get_levels_for_metal(metal)
        distance_percent(level) ==
            Times(Over(AbsF(Minus(Num(current_price), level.value)), Num(current_price)),
                  Num(100))
        near == SelectSeq(lvls, LAMBDA level :
                              Le(distance_percent(level), TECHNICAL_PROXIMITY_PERCENT))
    IN  [k \in 1..Len(near) |->
            [metal |-> metal, level |-> near[k], current_price |-> current_price,
             distance_percent |-> distance_percent(near[k]),
             approaching |->
                 IF near[k].level_type = LevelType.RESISTENCIA
                 THEN Lt(Num(current_price), near[k].value)
                 ELSE Lt(near[k].value, Num(current_price))]]

\* check_proximity_alerts
check_proximity_alerts(metal, current_price) ==
    LET lvls == get_levels_for_metal(metal)
        distance_percent(level) ==
            Times(Over(AbsF(Minus(Num(current_price), level.value)), level.value),
                  Num(100))
        near == SelectSeq(lvls, LAMBDA level :
                              Le(distance_percent(level), TECHNICAL_PROXIMITY_PERCENT))
    IN  [k \in 1..Len(near) |->
            [metal |-> metal, level |-> near[k], current_price |-> current_price,
             distance_percent |-> distance_percent(near[k]),
             approaching |->
                 IF near[k].level_type = LevelType.RESISTENCIA
                 THEN Lt(Num(current_price), near[k].value)
                 ELSE Lt(near[k].value, Num(current_price))]]

\* check_level_breaks with the previous price included as the current one is.
check_level_breaks_closed(metal, current_price, previous_price) ==
    LET lvls == get_levels_for_metal(metal)
        crossed_up(level) == /\ Le(Num(previous_price), level.value)
                             /\ Le(level.value, Num(current_price))
        crossed_down(level) == /\ Le(level.value, Num(previous_price))
                               /\ Le(Num(current_price), level.value)
        broken == SelectSeq(lvls, LAMBDA level : crossed_up(level) \/ crossed_down(level))
    IN  [k \in 1..Len(broken) |->
            [metal |-> metal, level |-> broken[k], current_price |-> current_price,
             previous_price |-> previous_price,
             direction |-> IF crossed_up(broken[k]) THEN "up" ELSE "down"]]

\* check_level_breaks
check_level_breaks(metal, current_price, previous_price) ==
    LET lvls == get_levels_for_metal(metal)
        crossed_up(level) == /\ Lt(Num(previous_price), level.value)
                             /\ Le(level.value, Num(current_price))
        crossed_down(level) == /\ Lt(level.value, Num(previous_price))
                               /\ Le(Num(current_price), level.value)
        broken == SelectSeq(lvls, LAMBDA level : crossed_up(level) \/ crossed_down(level))
    IN  [k \in 1..Len(broken) |->
            [metal |-> metal, level |-> broken[k], current_price |-> current_price,
             previous_price |-> previous_price,
             direction |-> IF crossed_up(broken[k]) THEN "up" ELSE "down"]]

\* The checks of the levels against the last price of the metal, as
\* job_collect_technical calls check_proximity_alerts; check_level_breaks is
\* called with the same price and a previous one.
check_levels(metal, previous_price) ==
    /\ get_last_price(metal) # <<>>
    /\ LET current_price == get_last_price(metal)[1].price
       IN  checks' = [proximity |-> check_proximity_alerts(metal, current_price),
                      breaks |-> check_level_breaks(metal, current_price, previous_price)]
    /\ UNCHANGED <<now, restarts, alertVars, priceVars, levels, pivots,
                   technical_levels, stopVars, botVars>>

(***************************************************************************)
(* processors/alerts.py: the other rule functions                          *)
(***************************************************************************)
\* process_technical_proximity: nothing beyond the proximity percentage.
process_technical_proximity(metal, level_name, distance_percent) ==
    IF Lt(TECHNICAL_PROXIMITY_PERCENT, distance_percent) THEN <<>>
    ELSE <<[level        |-> "IMPORTANTE",
            alert_type   |-> "technical",
            metal        |-> metal,
            content_hash |-> _generate_hash(<<"tech_prox", metal, level_name>>),
            priority     |-> 2,
            requires_llm |-> TRUE]>>

process_technical_break(metal, level_name, direction) ==
    <<[level        |-> "CRITICO",
       alert_type   |-> "technical_break",
       metal        |-> metal,
       content_hash |-> _generate_hash(<<"tech_break", metal, level_name, direction>>),
       priority     |-> 3,
       requires_llm |-> TRUE]>>

WHALE_ALERT_THRESHOLD_USD == 1000000

\* process_whale_movement: PAXG and XAUT movements are gold.
process_whale_movement(tx_hash, value_usd) ==
    IF value_usd < WHALE_ALERT_THRESHOLD_USD THEN <<>>
    ELSE <<[level        |-> "IMPORTANTE",
            alert_type   |-> "whale",
            metal        |-> "XAU",
            content_hash |-> _generate_hash(<<"whale", tx_hash>>),
            priority     |-> 2,
            requires_llm |-> FALSE]>>

\* process_cot_update: an alert when managed money holds more than 30
\* percent of the open interest or has changed by more than 20000.
process_cot_update(metal, report_date, mm_net, mm_change, open_interest) ==
    LET mm_pct == IF open_interest # 0
                  THEN Times(Over(Num(mm_net), Num(open_interest)), Num(100))
                  ELSE Num(0)
    IN  IF ~(Lt(Num(30), AbsF(mm_pct)) \/ Abs(mm_change) > 20000) THEN <<>>
        ELSE <<[level        |-> "INFO",
                alert_type   |-> "cot",
                metal        |-> metal,
                content_hash |-> _generate_hash(<<"cot", metal, report_date>>),
                priority     |-> 1,
                requires_llm |-> FALSE]>>

(***************************************************************************)
(* The alert pipeline                                                      *)
(***************************************************************************)
NoCandidates == [cycle |-> 0, evaluated |-> <<>>]
DefaultConfig == [alertas_ativos |-> TRUE, filtros |-> {}, silenciado_ate |-> <<>>]

\* TechnicalAnalyzer.__init__ on an empty table technical_levels.
NoChecks == [proximity |-> <<>>, breaks |-> <<>>]
InitTechnical ==
    /\ levels = NoLevels
    /\ pivots = NoPivots
    /\ technical_levels = {}
    /\ checks = NoChecks

\* OpusDeiTradeMetaLApp.__init__: the event _stopped is clear.
InitLifecycle ==
    /\ _stopped = FALSE
    /\ loop_closed = FALSE

\* TelegramBot.__init__ with TELEGRAM_CHAT_ID configured; nothing delivered.
ChatId == <<1>>
InitBot ==
    /\ authorized_chat = ChatId
    /\ delivered = {}

InitPrices ==
    /\ last_prices = NoPrices
    /\ price_history = [k \in Keys |-> <<>>]
    /\ db_price_history = [k \in Keys |-> <<>>]
    /\ all_results = <<>>
    /\ merged = NoPrices
    /\ cycle = 0
    /\ tasks = <<>>
    /\ completed = <<>>
    /\ collect_pc = "idle"
    /\ fetch = IdleFetch
    /\ candidates = NoCandidates

Init ==
    /\ now = 0
    /\ restarts = 0
    /\ alert_queue = <<>>
    /\ alerts_sent_this_hour = 0
    /\ hour_start = now
    /\ db_config = DefaultConfig
    /\ user_config = DefaultConfig
    /\ alerts_sent = {}
    /\ pc = [p \in Callers |-> "idle"]
    /\ cur = [p \in Callers |-> <<>>]
    /\ next_id = 1
    /\ life = <<>>
    /\ drain = [p \in Callers |-> NoDrain]
    /\ InitPrices
    /\ InitTechnical
    /\ InitLifecycle
    /\ InitBot

QueuePriceAlert ==
    \E m \in AlertMetals, c \in Changes, tf \in Timeframes :
        queue_alert(process_price_change(m, c, tf))
QueueCriticalAlert == queue_alert(process_price_change("XAU", 25, 15))
QueueCalendarAlert == queue_alert(process_calendar_event("FOMC", "7d"))
ProcessQueue == \E p \in Callers : process_queue(p)
SendReturns == \E p \in Callers : send_returns(p)
SendRaises == \E p \in Callers : send_raises(p)
SleepReturns == \E p \in Callers : sleep_returns(p)
CmdSilenciar == \E m \in SilenceMinutes : silence(m)
CmdAtivar == unsilence
CmdFiltrar == \E f \in FilterChoices : set_filter(f)
CmdPausarTudo == cmd_pausartudo
CmdDespausar == cmd_despausar
Clock == \E d \in TickSteps : Tick(d)

\* The dispatch mechanics of one caller of process_queue, with the
\* configuration left at its defaults.
Next ==
    \/ QueuePriceAlert
    \/ process_queue("job_collect_prices")
    \/ SendReturns
    \/ SendRaises
    \/ SleepReturns
    \/ Clock

Spec == Init /\ [][Next]_vars

\* The technical analyzer on a table price_history of up to MaxHistory
\* samples of gold, all of them with or all without a volume: the process
\* was started on the table earlier runs had filled and its first
\* collection cycle has added the newest sample.
MaxHistory == 5
TechPrices == {1900, 2000, 2010}
TechVolumes == {<<>>, <<5>>}
CheckPrices == {1994, 2000, 2004, 2010}

InitTechnicalHistory ==
    /\ now = 0
    /\ restarts = 0
    /\ alert_queue = <<>>
    /\ alerts_sent_this_hour = 0
    /\ hour_start = now
    /\ db_config = DefaultConfig
    /\ user_config = DefaultConfig
    /\ alerts_sent = {}
    /\ pc = [p \in Callers |-> "idle"]
    /\ cur = [p \in Callers |-> <<>>]
    /\ next_id = 1
    /\ life = <<>>
    /\ drain = [p \in Callers |-> NoDrain]
    /\ \E n \in 0..MaxHistory, v \in TechVolumes :
          \E h \in [1..n -> TechPrices] :
              /\ db_price_history =
                     [k \in Keys |-> IF k = "XAU"
                                     THEN [i \in 1..n |-> HistoryRow(h[i], v)]
                                     ELSE <<>>]
              /\ price_history =
                     [k \in Keys |-> IF k = "XAU" /\ n > 0 THEN <<<<now, h[n]>>>>
                                     ELSE <<>>]
              /\ last_prices =
                     IF n = 0 THEN NoPrices
                     ELSE One("XAU", [PriceData("XAU", h[n], 95, now, 0)
                                          EXCEPT !.volume = v])
    /\ all_results = <<>>
    /\ merged = NoPrices
    /\ cycle = 0
    /\ tasks = <<>>
    /\ completed = <<>>
    /\ collect_pc = "idle"
    /\ fetch = IdleFetch
    /\ candidates = NoCandidates
    /\ InitTechnical
    /\ InitLifecycle
    /\ InitBot

\* Metals.live: reliability 95, gold at one of the prices, no volume.
TechnicalSource ==
    {Returned(One("XAU", PriceData("XAU", p, 95, now, 0))) : p \in TechPrices}

CollectForTechnical ==
    /\ \E a \in TechnicalSource : collect_all_prices(<<a>>)
    /\ UNCHANGED <<gatherVars, fetchVars, passVars>>
UpdateLevels == \E metal \in TechMetals : update_levels_for_metal(metal)
CheckLevels == \E metal \in TechMetals, previous \in CheckPrices : check_levels(metal, previous)

NextLevels ==
    \/ UpdateLevels
    \/ CheckLevels

SpecLevels == InitTechnicalHistory /\ [][NextLevels]_vars

\* The technical analyzer of a process started on an empty database: the
\* collection cycles add the samples and the levels are recomputed between
\* them.
NextTechnical ==
    \/ CollectForTechnical
    \/ UpdateLevels
    \/ CheckLevels

SpecTechnical == Init /\ [][NextTechnical]_vars

\* Alerts the scheduled jobs build -- a critical and an informational price
\* alert, a technical proximity inside and one outside the proximity
\* percentage, a calendar notice -- and the drain of one job, with the
\* enrichment of every popped alert before its send.
JobAlerts ==
    {process_price_change("XAU", 25, 15), process_price_change("XAU", 12, 1440),
     process_technical_proximity("XAU", "max_52w", Frac(1, 10)),
     process_technical_proximity("XAU", "max_52w", Frac(1, 2)),
     process_calendar_event("FOMC", "7d")}

\* One alert or more of every rule function, among them the two the jobs
\* never ask for: a technical break and the notice of a calendar result.
RuleAlerts ==
    {process_price_change("XAU", 25, 15), process_price_change("XAU", 12, 1440),
     process_technical_proximity("XAU", "max_52w", Frac(1, 10)),
     process_technical_break("XAU", "max_52w", "up"),
     process_calendar_event("FOMC", "7d"), process_calendar_event("FOMC", "result"),
     process_whale_movement("0xabc", 2000000), process_whale_movement("0xdef", 500000),
     process_cot_update("XAU", "2026-01-02", 40000, 0, 100000),
     process_cot_update("XAU", "2026-01-02", 10000, 0, 100000)}

QueueJobAlert == \E alert \in JobAlerts : queue_alert(alert)
QueueRuleAlert == \E alert \in RuleAlerts : queue_alert(alert)
EnrichReturns == \E p \in Callers : enrich_returns(p)
SendAfterEnrich ==
    \E p \in Callers :
        /\ pc[p] = "send"
        /\ life[cur[p][1].id].llm # <<>>
        /\ send_returns(p)

NextQuota ==
    \/ QueueJobAlert
    \/ process_queue("job_collect_prices")
    \/ EnrichReturns
    \/ SendAfterEnrich
    \/ SleepReturns

SpecQuota == Init /\ [][NextQuota]_vars

NextRules ==
    \/ QueueRuleAlert
    \/ process_queue("job_collect_prices")
    \/ EnrichReturns
    \/ SendAfterEnrich
    \/ SleepReturns

SpecRules == Init /\ [][NextRules]_vars

\* Alerts of the three severities as the price rule and the calendar rule
\* build them, and the drains of one caller under the rate cap.
SeverityAlerts ==
    {process_price_change("XAU", 25, 15), process_price_change("XAU", 12, 60),
     process_price_change("XAU", 12, 1440),
     process_calendar_event("FOMC", "7d"), process_calendar_event("FOMC", "1d"),
     process_calendar_event("FOMC", "1h")}

QueueSeverityAlert == \E alert \in SeverityAlerts : queue_alert(alert)

NextSeverity ==
    \/ QueueSeverityAlert
    \/ process_queue("job_collect_prices")
    \/ SendReturns
    \/ SendRaises
    \/ SleepReturns

SpecSeverity == Init /\ [][NextSeverity]_vars

\* The drains of one caller with the callback the application wires in,
\* TelegramBot.send_message, on a deployment with or without
\* TELEGRAM_CHAT_ID.
InitTelegram ==
    /\ now = 0
    /\ restarts = 0
    /\ alert_queue = <<>>
    /\ alerts_sent_this_hour = 0
    /\ hour_start = now
    /\ db_config = DefaultConfig
    /\ user_config = DefaultConfig
    /\ alerts_sent = {}
    /\ pc = [p \in Callers |-> "idle"]
    /\ cur = [p \in Callers |-> <<>>]
    /\ next_id = 1
    /\ life = <<>>
    /\ drain = [p \in Callers |-> NoDrain]
    /\ InitPrices
    /\ InitTechnical
    /\ InitLifecycle
    /\ authorized_chat \in {<<>>, ChatId}
    /\ delivered = {}

SendMessage == \E p \in Callers, api \in ApiOutcomes : send_message(p, api)

NextTelegram ==
    \/ QueuePriceAlert
    \/ process_queue("job_collect_prices")
    \/ SendMessage
    \/ SleepReturns
    \/ Clock

SpecTelegram == InitTelegram /\ [][NextTelegram]_vars

\* A drain of one caller and the shutdown of the application: the signal can
\* arrive at any await of the drain, and until asyncio.run closes the loop
\* the tasks of the loop go on.
NextShutdown ==
    \/ ~loop_closed /\ QueuePriceAlert
    \/ ~loop_closed /\ process_queue("job_collect_prices")
    \/ ~loop_closed /\ SendReturns
    \/ ~loop_closed /\ SendRaises
    \/ ~loop_closed /\ SleepReturns
    \/ stop
    \/ main_returns

SpecShutdown == Init /\ [][NextShutdown]_vars

\* Two scheduled jobs call process_queue and their drains interleave at the
\* awaits; one kind of alert.
NextConcurrent ==
    \/ QueueCriticalAlert
    \/ ProcessQueue
    \/ SendReturns
    \/ SendRaises
    \/ SleepReturns
    \/ Clock

SpecConcurrent == Init /\ [][NextConcurrent]_vars

\* The drains of two callers when every await of a drain ends: the send
\* callback returns or raises (the request to the messaging API has a
\* timeout) and asyncio.sleep(0.5) returns.
DrainResumes ==
    \A p \in Callers :
        /\ WF_vars(send_returns(p) \/ send_raises(p))
        /\ WF_vars(sleep_returns(p))

SpecDrain == Init /\ [][NextConcurrent]_vars /\ DrainResumes

\* One caller of process_queue under the control commands and a restart of
\* the process; one kind of alert.
NextControl ==
    \/ QueueCriticalAlert
    \/ process_queue("job_collect_prices")
    \/ SendReturns
    \/ SendRaises
    \/ SleepReturns
    \/ CmdSilenciar
    \/ CmdAtivar
    \/ CmdPausarTudo
    \/ CmdDespausar
    \/ Restart
    \/ Clock

SpecControl == Init /\ [][NextControl]_vars

\* The collection cycles of the price fusion engine.
CollectAllPrices ==
    \E a \in KitcoSource, b \in YahooFinanceSource, c \in ShanghaiGoldExchangeSource :
        /\ collect_all_prices(<<a, b, c>>)
        /\ UNCHANGED <<gatherVars, fetchVars, passVars>>

NextPrices ==
    \/ CollectAllPrices
    \/ Elapse

SpecPrices == Init /\ [][NextPrices]_vars

\* One collection cycle seen from the event loop: the tasks of the sources
\* settle in any order while collect_all_prices awaits asyncio.gather.
CollectStarts == collect_starts
TaskSettles == \E i \in Sources : task_settles(i)
CollectResumes == collect_resumes

NextGather ==
    \/ CollectStarts
    \/ TaskSettles
    \/ CollectResumes

\* Candidates with and without a target metal meet the allow-list that
\* /filtrar sets; the metal of a candidate comes in either case.
FilterMetals == {"XAU", "xag"}
QueueMetalAlert == \E m \in FilterMetals : queue_alert(process_price_change(m, 25, 15))

NextFilter ==
    \/ QueueMetalAlert
    \/ QueueCalendarAlert
    \/ CmdFiltrar
    \/ process_queue("job_collect_prices")
    \/ SendReturns
    \/ SleepReturns

SpecFilter == Init /\ [][NextFilter]_vars

\* The drain of one job when the enrichment of an alert can fail.
EnrichRaises == \E p \in Callers : enrich_raises(p)

NextEnrich ==
    \/ QueuePriceAlert
    \/ process_queue("job_collect_prices")
    \/ EnrichRaises
    \/ SendReturns
    \/ SendRaises
    \/ SleepReturns
    \/ Clock

SpecEnrich == Init /\ [][NextEnrich]_vars

SpecGather == Init /\ [][NextGather]_vars

\* One call of fetch_with_retry. fetch_prices is bounded by the timeout of
\* its HTTP request and asyncio.sleep returns, so a suspended call resumes.
FetchWithRetry == \E retries \in 0..MaxRetries : fetch_with_retry(retries)
FetchPricesReturns == \E prices \in FetchedPrices : fetch_prices_returns(prices)
FetchPricesRaises == fetch_prices_raises
BackoffEnds == backoff_ends

NextFetch ==
    \/ FetchWithRetry
    \/ FetchPricesReturns
    \/ FetchPricesRaises
    \/ BackoffEnds

SpecFetch == Init /\ [][NextFetch]_vars /\ WF_vars(NextFetch)

\* One run of the pass of job_collect_prices, started with a history that
\* earlier cycles left: points 24 h, 60 min, 15 min and 14 min before the
\* clock, each present or not, in time order and inside the band of gold.
PassNow == 90000
PassOffsets == <<86400, 3600, 900, 840>>
OldPrices == {1950, 1980, 1990, 2050}

HistoryOf(choice) ==
    LET points == [i \in 1..Len(PassOffsets) |-> <<PassNow - PassOffsets[i], choice[i]>>]
    IN  SelectSeq(points, LAMBDA e : e[2] # 0)

InitPass ==
    /\ now = PassNow
    /\ restarts = 0
    /\ alert_queue = <<>>
    /\ alerts_sent_this_hour = 0
    /\ hour_start = now
    /\ db_config = DefaultConfig
    /\ user_config = DefaultConfig
    /\ alerts_sent = {}
    /\ pc = [p \in Callers |-> "idle"]
    /\ cur = [p \in Callers |-> <<>>]
    /\ next_id = 1
    /\ life = <<>>
    /\ drain = [p \in Callers |-> NoDrain]
    /\ \E choice \in [1..Len(PassOffsets) -> OldPrices \cup {0}] :
          LET h == HistoryOf(choice)
          IN  /\ price_history = [k \in Keys |-> IF k = "XAU" THEN h ELSE <<>>]
              /\ db_price_history =
                     [k \in Keys |-> IF k = "XAU"
                                     THEN [i \in 1..Len(h) |-> HistoryRow(h[i][2], <<>>)]
                                     ELSE <<>>]
              /\ last_prices =
                     IF h = <<>> THEN NoPrices
                     ELSE One("XAU", PriceData("XAU", h[Len(h)][2], 95, h[Len(h)][1], 0))
    /\ all_results = <<>>
    /\ merged = NoPrices
    /\ cycle = 0
    /\ tasks = <<>>
    /\ completed = <<>>
    /\ collect_pc = "idle"
    /\ fetch = IdleFetch
    /\ candidates = NoCandidates
    /\ InitTechnical
    /\ InitLifecycle
    /\ InitBot

\* Metals.live: reliability 95, gold at 2000 or nothing.
MetalsLiveSource ==
    {Returned(NoPrices), Returned(One("XAU", PriceData("XAU", 2000, 95, now, 0)))}

CollectForPass ==
    /\ candidates.cycle = cycle
    /\ \E a \in MetalsLiveSource : collect_all_prices(<<a>>)
    /\ UNCHANGED <<gatherVars, fetchVars, passVars>>
EvaluatePrices == evaluate_prices

NextPass ==
    \/ CollectForPass
    \/ EvaluatePrices

SpecPass == InitPass /\ [][NextPass]_vars

\* The rolling history of gold over three days: collection cycles of one
\* source, an hour or a day apart.
MaxClock == 259200
HistorySteps == {3600, 86400}

CollectForHistory ==
    /\ \E a \in MetalsLiveSource : collect_all_prices(<<a>>)
    /\ UNCHANGED <<gatherVars, fetchVars, passVars>>

TimePasses ==
    \E d \in HistorySteps :
        /\ now + d <= MaxClock
        /\ now' = now + d
        /\ UNCHANGED <<restarts, techVars, stopVars, botVars, alertVars, priceVars>>

NextHistory ==
    \/ CollectForHistory
    \/ TimePasses

SpecHistory == Init /\ [][NextHistory]_vars

(***************************************************************************)
(* Properties of the alert pipeline                                        *)
(***************************************************************************)
Alerts == 1..Len(life)
Hash(i) == life[i].alert.content_hash
SendInvoked(i) == life[i].st \in {"inflight", "sent", "failed"}
Sent(i) == life[i].st = "sent"
\* Caller p pops an alert in this step.
Popped(p) == pc'[p] = "send" /\ (pc[p] # "send" \/ cur'[p] # cur[p])
\* Caller p's drain ends in this step.
Ends(p) == Running(p) /\ pc'[p] = "idle" /\ restarts' = restarts

\* C1: while every send succeeds, the candidates that carry one fingerprint
\* produce at most one invocation of the send callback, also when two of
\* them are enqueued before the first is dispatched.
C1_OneDispatchPerFingerprint ==
    (\A i \in Alerts : life[i].st # "failed")
        => \A i, j \in Alerts :
              (i # j /\ Hash(i) = Hash(j)) => ~(SendInvoked(i) /\ SendInvoked(j))

\* C2: the sent-ledger holds a fingerprint only if a send for an alert with
\* that fingerprint has returned; a send that raises leaves the ledger as it
\* is; and a candidate whose fingerprint has had only failed sends passes
\* the duplicate check of queue_alert and is enqueued.
C2_LedgerSound ==
    \A h \in alerts_sent : \E i \in Alerts : Sent(i) /\ Hash(i) = h

C2_FailedSendNotRecorded ==
    /\ \A p \in Callers : send_raises(p) => alerts_sent' = alerts_sent
    /\ \A m \in AlertMetals, c \in Changes, tf \in Timeframes :
         LET cand == process_price_change(m, c, tf)
         IN  ( /\ cand # <<>>
               /\ \E i \in Alerts : life[i].st = "failed" /\ Hash(i) = cand[1].content_hash
               /\ ~\E i \in Alerts : Sent(i) /\ Hash(i) = cand[1].content_hash
               /\ ~_should_filter_metal(m)
               /\ queue_alert(cand) )
             => /\ Len(alert_queue') = Len(alert_queue) + 1
                /\ alert_queue'[Len(alert_queue')].content_hash = cand[1].content_hash

C2_LedgerOnlyAfterSuccessfulSend ==
    []C2_LedgerSound /\ [][C2_FailedSendNotRecorded]_vars

C2_Witness ==
    \E i, j \in Alerts :
        /\ i < j
        /\ life[i].st = "failed"
        /\ Hash(j) = Hash(i)
        /\ Sent(j)
        /\ Hash(j) \in alerts_sent

\* C3: a drain in isolation (no other drain, no enqueue, no failed send)
\* that starts on M > RateCap alerts of equal priority with a counter of
\* zero, and during which the window is not reset, pops exactly RateCap
\* alerts and leaves the other M - RateCap in the queue; and a process_queue
\* call made once an hour has passed since the window start, not suppressed,
\* on a non-empty queue resets the counter and dispatches the head of the
\* queue.
C3_DrainStopsAtCap ==
    \A p \in Callers :
        ( /\ Ends(p)
          /\ pc[p] = "sleep"
          /\ drain[p].clean
          /\ hour_start' = hour_start
          /\ drain[p].M > RateCap )
        => /\ drain[p].nsent = RateCap
           /\ Len(alert_queue') = drain[p].M - RateCap
           /\ alert_queue' = alert_queue

C3_DispatchAfterReset ==
    \A p \in Callers :
        ( /\ process_queue(p)
          /\ alert_queue # <<>>
          /\ ~_is_silenced
          /\ now - hour_start >= HourSeconds )
        => /\ pc'[p] = "send"
           /\ cur'[p] = <<Head(SortByPriority(alert_queue))>>
           /\ alerts_sent_this_hour' = 0
           /\ Len(alert_queue') = Len(alert_queue) - 1

C3_CapLeavesRestQueued ==
    [][C3_DrainStopsAtCap /\ C3_DispatchAfterReset]_vars

\* An alert left behind by the cap in such a drain is sent by a later drain.
C3_Witness ==
    \E i \in Alerts : life[i].capped /\ Sent(i) /\ life[i].t >= HourSeconds

C4_CounterBound ==
    alerts_sent_this_hour + Cardinality({p \in Callers : pc[p] = "send"})
        <= RateCap + Cardinality(Callers) - 1

C4_DispatchBelowCap ==
    \A p \in Callers :
        Popped(p) =>
            /\ alerts_sent_this_hour' < RateCap
            /\ \/ hour_start' = hour_start /\ alerts_sent_this_hour' = alerts_sent_this_hour
               \/ /\ now - hour_start >= HourSeconds
                  /\ hour_start' = now
                  /\ alerts_sent_this_hour' = 0

C5_Order ==
    \A p \in Callers :
        /\ (Popped(p) /\ drain'[p].noenq)
              => \A k \in 1..Len(alert_queue') :
                     alert_queue'[k].priority <= cur'[p][1].priority
        /\ (Popped(p) /\ Running(p) /\ drain'[p].noenq)
              => cur'[p][1].priority <= cur[p][1].priority
        /\ (Ends(p) /\ drain[p].noenq)
              => \A k \in 1..Len(alert_queue') :
                     alert_queue'[k].priority <= cur[p][1].priority

C6_SilenceActive ==
    /\ user_config.silenciado_ate # <<>>
    /\ now < user_config.silenciado_ate[1]

C6_Discarded(i) == life[i].st = "discarded"

C6_SilencedDrainDiscards ==
    \A p \in Callers :
        (process_queue(p) /\ C6_SilenceActive /\ alert_queue # <<>>)
        => /\ alert_queue' = <<>>
           /\ pc' = pc /\ cur' = cur
           /\ alerts_sent' = alerts_sent
           /\ \A i \in Ids(alert_queue) : life'[i].st = "discarded"

C6_DiscardedIsFinal ==
    \A i \in Alerts :
        C6_Discarded(i) =>
            /\ i \notin Ids(alert_queue)
            /\ \A p \in Callers : cur[p] # <<>> => cur[p][1].id # i

C6_SameConditionEnqueued ==
    LET cand == process_price_change("XAU", 25, 15)
    IN  ( /\ \E i \in Alerts : C6_Discarded(i) /\ Hash(i)[1] = cand[1].content_hash[1]
          /\ ~\E j \in Alerts : Sent(j) /\ Hash(j) = cand[1].content_hash
          /\ queue_alert(cand) )
        => /\ Len(alert_queue') = Len(alert_queue) + 1
           /\ alert_queue'[Len(alert_queue')].content_hash = cand[1].content_hash

C6_SilenceDiscardsQueue ==
    /\ []C6_DiscardedIsFinal
    /\ [][C6_SilencedDrainDiscards /\ C6_SameConditionEnqueued]_vars

\* An alert was discarded under the silence, and an alert for the same
\* condition has been sent after the silence lapsed.
C6_Witness ==
    \E i, j \in Alerts :
        /\ i < j
        /\ C6_Discarded(i)
        /\ Hash(j)[1] = Hash(i)[1]
        /\ Sent(j)
        /\ user_config.silenciado_ate # <<>>
        /\ life[j].t >= user_config.silenciado_ate[1]
        /\ Hash(i) \notin alerts_sent \/ Hash(i) = Hash(j)

\* C7: while the switch stored by the pause command is off (alertas_ativos
\* is false in the configuration store), a process_queue call on a non-empty
\* queue starts no dispatch and discards the whole queue.
C7_PausedDrainDiscards ==
    [][\A p \in Callers :
          (process_queue(p) /\ ~db_config.alertas_ativos /\ alert_queue # <<>>)
          => (alert_queue' = <<>> /\ pc' = pc)]_vars

(***************************************************************************)
(* Properties of the price fusion engine                                   *)
(***************************************************************************)
\* The observations the adapters returned for a key in the last cycle, and
\* those among them priced inside the band of their metal.
Offered(code) ==
    {all_results[i][code][1] :
        i \in {j \in 1..Len(all_results) : all_results[j][code] # <<>>}}
InBand(o) ==
    /\ price_limits[o.metal].min_price <= o.price
    /\ o.price <= price_limits[o.metal].max_price
Surviving(code) == {o \in Offered(code) : InBand(o)}
\* a is at least as good as b: more reliable, or as reliable and no older.
AtLeast(a, b) ==
    \/ a.reliability > b.reliability
    \/ a.reliability = b.reliability /\ a.timestamp >= b.timestamp

\* C8: for every key the observation chosen by _merge_prices is one of the
\* surviving observations of the cycle, no surviving observation is more
\* reliable, and none of equal reliability is more recent; a key without a
\* surviving observation has no fused price.
C8_MergeChoosesBest ==
    \A code \in Keys :
        IF Surviving(code) = {}
        THEN merged[code] = <<>>
        ELSE /\ merged[code] # <<>>
             /\ merged[code][1] \in Surviving(code)
             /\ \A o \in Surviving(code) :
                   /\ merged[code][1].reliability >= o.reliability
                   /\ o.reliability = merged[code][1].reliability
                         => merged[code][1].timestamp >= o.timestamp

\* Two surviving observations tie on reliability and the more recent one,
\* returned by the first adapter, is the fused price.
C8_Witness ==
    /\ cycle >= 1
    /\ \E code \in Keys : \E a, b \in Surviving(code) :
          /\ a.reliability = b.reliability
          /\ a.timestamp < b.timestamp
          /\ merged[code] = <<b>>
          /\ all_results[1][code] = <<b>>

\* C9: a fused price, of the cycle or cached, always lies inside the band
\* of its metal; and an observation inside the band with a percent change
\* above 20 is not dropped: the fused price of its key is that observation
\* or one at least as good.
C9_OutOfBandNeverFused ==
    \A code \in Keys :
        /\ merged[code] # <<>> => InBand(merged[code][1])
        /\ last_prices[code] # <<>> => InBand(last_prices[code][1])
        /\ \A o \in Offered(code) :
              (InBand(o) /\ Abs(o.change_percent) > SuspiciousChange)
              => /\ merged[code] # <<>>
                 /\ AtLeast(merged[code][1], o)

\* The fused price has a percent change above 20, and a more reliable
\* observation of the same cycle was priced outside the band.
C9_Witness ==
    /\ cycle >= 1
    /\ \E code \in Keys :
          /\ merged[code] # <<>>
          /\ Abs(merged[code][1].change_percent) > SuspiciousChange
          /\ \E o \in Offered(code) :
                ~InBand(o) /\ o.reliability > merged[code][1].reliability

\* C10: a cycle in which a key has no surviving observation leaves the
\* key's last price, its in-memory history and its database history as they
\* were; a cycle in which it has one makes the fused price the last price;
\* and a key that was never fused has no last price.
C10_CycleFrame ==
    \A code \in Keys :
        cycle' = cycle + 1 =>
            IF Surviving(code)' = {}
            THEN /\ get_last_price(code)' = get_last_price(code)
                 /\ price_history'[code] = price_history[code]
                 /\ db_price_history'[code] = db_price_history[code]
            ELSE /\ get_last_price(code)' = merged'[code]
                 /\ Len(db_price_history'[code]) = Len(db_price_history[code]) + 1

C10_NeverFusedIsNone ==
    \A code \in Keys :
        db_price_history[code] = <<>> => get_last_price(code) = <<>>

C10_RejectedCycleKeepsLastPrice ==
    []C10_NeverFusedIsNone /\ [][C10_CycleFrame]_vars

\* In the second cycle the only observation of a key was rejected; the key
\* keeps the price and the single history point of the first cycle, while
\* the other key, never observed, has no last price.
C10_Witness ==
    /\ cycle = 2
    /\ \E code \in Keys :
          /\ Offered(code) # {}
          /\ Surviving(code) = {}
          /\ get_last_price(code) # <<>>
          /\ Len(price_history[code]) = 1
          /\ Len(db_price_history[code]) = 1
    /\ \E code \in Keys : get_last_price(code) = <<>>

(***************************************************************************)
(* Properties of a collection cycle around asyncio.gather                  *)
(***************************************************************************)
\* The tasks that handed a non-empty mapping to collect_all_prices, and the
\* in-band observations those mappings hold for a key.
Remaining ==
    {i \in Sources : Settled(i) /\ ~tasks[i][1].failed /\ tasks[i][1].prices # NoPrices}
RemainingSurviving(code) ==
    {o \in {tasks[i][1].prices[code][1] :
                i \in {j \in Remaining : tasks[j][1].prices[code] # <<>>}} : InBand(o)}

C11_NeverRaises == collect_pc # "raised"

C11_MergedFromRemaining ==
    (collect_pc = "idle" /\ cycle >= 1) =>
        /\ {all_results[i] : i \in 1..Len(all_results)} =
               {tasks[i][1].prices : i \in Remaining}
        /\ Len(all_results) = Cardinality(Remaining)
        /\ \A code \in Keys :
              IF RemainingSurviving(code) = {}
              THEN merged[code] = <<>>
              ELSE /\ merged[code] # <<>>
                   /\ merged[code][1] \in RemainingSurviving(code)
                   /\ \A o \in RemainingSurviving(code) : AtLeast(merged[code][1], o)

C11_MergeAfterSettle ==
    (merged' # merged \/ all_results' # all_results \/ cycle' # cycle
        \/ last_prices' # last_prices \/ price_history' # price_history)
    => \A i \in Sources : Settled(i)

\* C11: whichever tasks of a cycle fail or return an empty mapping,
\* collect_all_prices does not raise and what it returns is the merge of
\* exactly the mappings of the other tasks; nothing is merged, cached or
\* appended to the history before every task of the cycle has settled.
C11_CollectSurvivesFaults ==
    /\ [](C11_NeverRaises /\ C11_MergedFromRemaining)
    /\ [][C11_MergeAfterSettle]_vars

\* A cycle has ended in which one task failed, one returned an empty mapping
\* and the result is the mapping of the third.
C11_Witness ==
    /\ collect_pc = "idle"
    /\ cycle >= 1
    /\ \E i, j, k \in Sources :
          /\ tasks[i][1].failed
          /\ ~tasks[j][1].failed /\ tasks[j][1].prices = NoPrices
          /\ Remaining = {k}
          /\ merged = tasks[k][1].prices
          /\ merged # NoPrices

(***************************************************************************)
(* Properties of fetch_with_retry                                          *)
(***************************************************************************)
\* The positions of the log at which fetch_prices was called, those at which
\* it failed (raised or returned an empty mapping) and those at which it
\* returned a non-empty mapping.
Attempts == {k \in 1..Len(fetch.log) : fetch.log[k].call = "fetch_prices"}
FailedAttempts == {k \in Attempts : fetch.log[k].raised \/ fetch.log[k].prices = NoPrices}
Successes == Attempts \ FailedAttempts

C12_BoundedAttempts ==
    /\ Cardinality(Attempts) <= fetch.retries
    /\ fetch.errors <= 1
    /\ fetch.pc # "done" => (Successes = {} /\ fetch.errors = 0 /\ fetch.result = <<>>)

C12_Returns ==
    fetch.pc = "done" =>
        IF Successes # {}
        THEN /\ Successes = {Len(fetch.log)}
             /\ fetch.result = <<fetch.log[Len(fetch.log)].prices>>
             /\ fetch.errors = 0
        ELSE /\ Cardinality(Attempts) = fetch.retries
             /\ fetch.result = <<NoPrices>>
             /\ fetch.errors = 1

\* C12: a call of fetch_with_retry(retries) returns, having called
\* fetch_prices at most retries times; the call that returned the first
\* non-empty mapping was the last one and that mapping is the result;
\* when every one of the retries calls raised or returned an empty mapping
\* one error row was logged and the result is the empty mapping.
C12_RetryTerminates ==
    /\ [](C12_BoundedAttempts /\ C12_Returns)
    /\ (fetch.pc \in {"fetch", "sleep"}) ~> (fetch.pc = "done")

\* A call with three attempts has returned the mapping of its third
\* attempt, after one attempt that raised and one that returned nothing.
C12_Witness ==
    /\ fetch.pc = "done"
    /\ Cardinality(Attempts) = 3
    /\ Successes = {Len(fetch.log)}
    /\ \E k \in FailedAttempts : fetch.log[k].raised
    /\ \E k \in FailedAttempts : ~fetch.log[k].raised
    /\ fetch.result # <<NoPrices>>

\* C12: the same call when every attempt fails.
C12_WitnessExhausted ==
    /\ fetch.pc = "done"
    /\ fetch.retries = 3
    /\ Successes = {}
    /\ fetch.errors = 1

\* The delays of the asyncio.sleep calls of the call, in order.
Delays ==
    LET sleeps == SelectSeq(fetch.log, LAMBDA e : e.call = "sleep")
    IN  [n \in 1..Len(sleeps) |-> sleeps[n].delay]

\* C13: every attempt after the first one is preceded by a backoff delay,
\* whether the attempt before it raised or returned an empty mapping; each
\* delay is twice the one before; and no delay follows the last attempt.
C13_BackoffAfterEveryFailure ==
    /\ \A k \in Attempts : k > 1 => fetch.log[k - 1].call = "sleep"
    /\ \A n \in 1..(Len(Delays) - 1) : Delays[n + 1] = 2 * Delays[n]
    /\ Len(Delays) < fetch.retries \/ fetch.retries = 0

(***************************************************************************)
(* Properties of calculate_change and of the price-alert pass              *)
(***************************************************************************)
\* The positions of the history of a metal at or before now - minutes.
AtOrBefore(metal, minutes) ==
    {i \in 1..Len(price_history[metal]) : price_history[metal][i][1] <= now - minutes * 60}
\* The latest of them: no point at or before the cutoff is later.
LatestAtOrBefore(metal, minutes) ==
    CHOOSE i \in AtOrBefore(metal, minutes) :
        \A j \in AtOrBefore(metal, minutes) :
            price_history[metal][j][1] <= price_history[metal][i][1]
\* The latest point of the history.
Latest(metal) ==
    CHOOSE i \in 1..Len(price_history[metal]) :
        \A j \in 1..Len(price_history[metal]) :
            price_history[metal][j][1] <= price_history[metal][i][1]

\* C14: calculate_change is None exactly when no point of the history is at
\* or before now - minutes; otherwise change_value is the price of the
\* latest point minus the price of the latest point at or before
\* now - minutes, and change_percent is that difference over the old price
\* times 100 (here in tenths of a percent, magnitude truncated).
C14_ChangeFromLatestOldPoint ==
    \A metal \in Keys : \A minutes \in {15, 60, 1440} :
        LET change == calculate_change(metal, minutes)
        IN  IF AtOrBefore(metal, minutes) = {}
            THEN change = <<>>
            ELSE LET old == price_history[metal][LatestAtOrBefore(metal, minutes)][2]
                     current == price_history[metal][Latest(metal)][2]
                 IN  /\ change # <<>>
                     /\ change[1].change_value = current - old
                     /\ Abs(change[1].change_percent) * old <= Abs(current - old) * 1000
                     /\ Abs(current - old) * 1000 < (Abs(change[1].change_percent) + 1) * old
                     /\ (current < old) = (change[1].change_percent < 0)
                           \/ change[1].change_percent = 0

\* The history holds two points at or before now - 15 min with different
\* prices and a later point, and a point inside the last 15 minutes.
C14_Witness ==
    /\ Cardinality(AtOrBefore("XAU", 15)) >= 2
    /\ \E i \in AtOrBefore("XAU", 15) :
          price_history["XAU"][i][2] #
              price_history["XAU"][LatestAtOrBefore("XAU", 15)][2]
    /\ Len(price_history["XAU"]) > Cardinality(AtOrBefore("XAU", 15)) + 1
    /\ calculate_change("XAU", 15) # <<>>
    /\ calculate_change("XAU", 15)[1].change_value # 0
    /\ cycle >= 1

\* The pass of the current cycle has run.
PassDone == cycle >= 1 /\ candidates.cycle = cycle
\* The candidates the pass produced for a metal, and those check_price_alerts
\* returns for it.
Produced(metal) ==
    {k \in 1..Len(candidates.evaluated) :
        candidates.evaluated[k].metal = metal /\ candidates.evaluated[k].alert # <<>>}
Checked(metal) ==
    {k \in 1..Len(check_price_alerts) : check_price_alerts[k].metal = metal}
\* A tier is met: the change over its own timeframe reaches its threshold.
TierMet(metal, level) ==
    LET minutes == ALERT_THRESHOLDS[level].timeframe_minutes
    IN  /\ AtOrBefore(metal, minutes) # {}
        /\ Abs(price_history[metal][Latest(metal)][2]
               - price_history[metal][LatestAtOrBefore(metal, minutes)][2]) * 1000
           >= ALERT_THRESHOLDS[level].percent_change
               * price_history[metal][LatestAtOrBefore(metal, minutes)][2]
\* The first tier met, from the tightest timeframe to the loosest.
FirstTierMet(metal) ==
    LET met == {i \in 1..Len(AlertLevel) : TierMet(metal, AlertLevel[i])}
    IN  IF met = {} THEN None ELSE AlertLevel[CHOOSE i \in met : \A j \in met : i <= j]

\* C15: a pass yields at most one price-change candidate per instrument;
\* its severity is that of the first tier, from 15 min to 24 h, whose own
\* timeframe change meets the tier's threshold, and the change it reports
\* was measured over the timeframe of that tier.
C15_OneCandidatePerInstrument ==
    \A metal \in Keys :
        PassDone =>
            /\ Cardinality(Produced(metal)) <= 1
            /\ \A k \in Produced(metal) :
                  LET e == candidates.evaluated[k]
                  IN  /\ e.alert[1].level = FirstTierMet(metal)
                      /\ ALERT_THRESHOLDS[e.alert[1].level].timeframe_minutes = e.minutes
            /\ Cardinality(Checked(metal)) <= 1

\* C16: when the history of an instrument holds a point at or before
\* now - 15 min and the change from the latest such point to the latest
\* point is at least 2.0 % in magnitude, check_price_alerts returns a
\* CRITICO candidate for the instrument, and so does the pass of
\* job_collect_prices for every instrument of the prices it was handed.
C16_CriticalCandidateProduced ==
    /\ \A m \in 1..Len(METAIS) :
          TierMet(METAIS[m], "CRITICO") =>
              \E k \in Checked(METAIS[m]) :
                  /\ check_price_alerts[k].level = "CRITICO"
                  /\ check_price_alerts[k].timeframe_minutes = 15
    /\ \A metal \in Keys :
          (PassDone /\ merged[metal] # <<>> /\ TierMet(metal, "CRITICO")) =>
              \E k \in Produced(metal) :
                  /\ candidates.evaluated[k].minutes = 15
                  /\ candidates.evaluated[k].alert[1].level = "CRITICO"
                  /\ candidates.evaluated[k].alert[1].alert_type = "price"

\* Gold was 1950 fifteen minutes ago and is 2000 now: the pass has queued a
\* CRITICO price alert for it.
C16_Witness ==
    /\ PassDone
    /\ merged["XAU"] # <<>>
    /\ merged["XAU"][1].price = 2000
    /\ AtOrBefore("XAU", 15) # {}
    /\ price_history["XAU"][LatestAtOrBefore("XAU", 15)] = <<now - 900, 1950>>
    /\ \E i \in 1..Len(alert_queue) :
          /\ alert_queue[i].level = "CRITICO"
          /\ alert_queue[i].metal = "XAU"
          /\ alert_queue[i].alert_type = "price"

(***************************************************************************)
(* Properties of the fingerprint                                           *)
(***************************************************************************)
\* The category-specific key of an alert, and the hour bucket in which its
\* fingerprint was generated.
KeyOf(a) == <<a.alert_type, a.metal, a.level>>
Bucket(i) == life[i].bucket
\* A fingerprint of the key is in the ledger for the current hour bucket.
RecordedThisBucket(key) ==
    \E i \in Alerts :
        /\ KeyOf(life[i].alert) = key
        /\ Bucket(i) = now \div HourSeconds
        /\ Hash(i) \in alerts_sent

C17_Deterministic ==
    \A i, j \in Alerts :
        KeyOf(life[i].alert) = KeyOf(life[j].alert) =>
            ((Hash(i) = Hash(j)) <=> (Bucket(i) = Bucket(j)))

C17_QueueAlertStep ==
    \A m \in AlertMetals, c \in Changes, tf \in Timeframes :
        LET alert == process_price_change(m, c, tf)
        IN  (alert # <<>> /\ queue_alert(alert)) =>
                IF RecordedThisBucket(KeyOf(alert[1]))
                THEN UNCHANGED <<alert_queue, life>>
                ELSE /\ Len(alert_queue') = Len(alert_queue) + 1
                     /\ KeyOf(alert_queue'[Len(alert_queue')]) = KeyOf(alert[1])
                     /\ life'[Len(life')].bucket = now \div HourSeconds

\* A candidate whose key has no fingerprint of the current bucket in the
\* ledger is appended by queue_alert.
C17_AcceptedAgain ==
    \A m \in AlertMetals, c \in Changes, tf \in Timeframes :
        LET alert == process_price_change(m, c, tf)
        IN  (alert # <<>> /\ ~RecordedThisBucket(KeyOf(alert[1])) /\ next_id <= MaxAlerts)
            => ENABLED (queue_alert(alert) /\ Len(alert_queue') = Len(alert_queue) + 1)

C18_PoppedAlertsReachSend ==
    \A i \in Alerts :
        life[i].st \in {"queued", "inflight", "sent", "failed", "discarded", "lost"}

(***************************************************************************)
(* Properties of the instrument allow-list                                 *)
(***************************************************************************)
\* Two spellings of one instrument code.
SameIgnoringCase(a, b) == a = b \/ {a, b} \in {{"XAU", "xau"}, {"XAG", "xag"}}
\* The allow-list lets the instrument through.
Allowed(metal) ==
    \/ user_config.filtros = {}
    \/ \E f \in user_config.filtros : SameIgnoringCase(f, metal)
\* queue_alert appends the alert in this step / leaves everything as it is.
Enqueues(alert) ==
    /\ Len(alert_queue') = Len(alert_queue) + 1
    /\ alert_queue'[Len(alert_queue')].content_hash = alert[1].content_hash
    /\ alert_queue'[Len(alert_queue')].metal = alert[1].metal
    /\ alerts_sent' = alerts_sent
Discards == UNCHANGED <<alert_queue, life, alerts_sent, next_id>>

C19_MetalCandidate ==
    \A m \in FilterMetals :
        LET alert == process_price_change(m, 25, 15)
        IN  queue_alert(alert) =>
                IF ~Allowed(m) THEN Discards
                ELSE IF alert[1].content_hash \in alerts_sent THEN Discards
                ELSE Enqueues(alert)

C19_NoMetalCandidate ==
    LET alert == process_calendar_event("FOMC", "7d")
    IN  queue_alert(alert) =>
            IF alert[1].content_hash \in alerts_sent THEN Discards ELSE Enqueues(alert)

\* A candidate queue_alert may not drop is appended by the call.
C19_AllowedIsEnqueued ==
    /\ \A m \in FilterMetals :
          LET alert == process_price_change(m, 25, 15)
          IN  (Allowed(m) /\ alert[1].content_hash \notin alerts_sent
                  /\ next_id <= MaxAlerts)
              => ENABLED (queue_alert(alert) /\ Enqueues(alert))
    /\ LET alert == process_calendar_event("FOMC", "7d")
       IN  (alert[1].content_hash \notin alerts_sent /\ next_id <= MaxAlerts)
           => ENABLED (queue_alert(alert) /\ Enqueues(alert))

\* C19: queue_alert appends a candidate with a target instrument only when
\* the allow-list is empty or holds the instrument, whatever the case of
\* either spelling, and otherwise leaves the queue and the ledger as they
\* are; a candidate without a target instrument is appended whatever the
\* allow-list holds.  (In both cases only if its fingerprint is not in the
\* ledger.)
C19_AllowList ==
    /\ []C19_AllowedIsEnqueued
    /\ [][C19_MetalCandidate /\ C19_NoMetalCandidate]_vars

\* With the allow-list set to silver, a candidate for "xag" and a candidate
\* without a metal were appended, and no candidate for gold was.
C19_Witness ==
    /\ user_config.filtros = {"XAG"}
    /\ \E i, j \in Alerts :
          /\ life[i].filtros = {"XAG"} /\ life[i].alert.metal = "xag"
          /\ life[j].filtros = {"XAG"} /\ life[j].alert.metal = None
    /\ \A i \in Alerts : life[i].filtros # {} => life[i].alert.metal # "XAU"
    /\ next_id > MaxAlerts

(***************************************************************************)
(* Properties of the drains of concurrent jobs                             *)
(***************************************************************************)
\* C20: at most one caller of process_queue is inside its drain (suspended
\* in the try block or in the pacing sleep) at any time.
C20_SingleDrain == Cardinality({p \in Callers : Running(p)}) <= 1


(***************************************************************************)
(* Properties of the shutdown                                              *)
(***************************************************************************)
\* C21: when the application is stopped while a drain is in progress, the
\* alert in flight completes -- its send returns or raises, and a send that
\* returned is recorded -- before the loop exits, and after the stop request
\* the drain dispatches none of the alerts that are left in the queue.
C21_InFlightCompletes == \A i \in 1..Len(life) : life[i].st # "cancelled"

C21_NoDispatchAfterStop ==
    \A p \in Callers : _stopped /\ Running(p) => ~Popped(p)

C21_GracefulShutdown == []C21_InFlightCompletes /\ [][C21_NoDispatchAfterStop]_vars


(***************************************************************************)
(* Properties of the technical analyzer                                    *)
(***************************************************************************)
\* The levels a result list of a check names, the value of a level against
\* a price, and the newest sample of the history of a metal.
Named(result) == {result[k].level.name : k \in 1..Len(result)}
LevelNames(metal) ==
    {get_levels_for_metal(metal)[i].name : i \in 1..Len(get_levels_for_metal(metal))}
LevelNamed(metal, name) ==
    CHOOSE l \in {get_levels_for_metal(metal)[i] :
                     i \in 1..Len(get_levels_for_metal(metal))} : l.name = name
Above(level, price) == level.value.n > price * level.value.d
Below(level, price) == level.value.n < price * level.value.d
StoredPrices(metal) ==
    [i \in 1..Len(db_price_history[metal]) |-> db_price_history[metal][i].price]

\* C22 (as stated): check_level_breaks returns exactly the levels whose value
\* lies strictly between the previous and the current price, tagged up when
\* the current price is the higher one and down otherwise; a level equal to
\* one of the two prices is not reported, and nothing is reported for equal
\* prices.
C22_StrictlyBetween ==
    \A metal \in TechMetals, current \in CheckPrices, previous \in CheckPrices :
        LET result == check_level_breaks(metal, current, previous)
        IN  /\ Named(result) =
                   {name \in LevelNames(metal) :
                       \/ /\ Above(LevelNamed(metal, name), previous)
                          /\ Below(LevelNamed(metal, name), current)
                       \/ /\ Below(LevelNamed(metal, name), previous)
                          /\ Above(LevelNamed(metal, name), current)}
            /\ Len(result) = Cardinality(Named(result))
            /\ \A k \in 1..Len(result) :
                   result[k].direction = IF current > previous THEN "up" ELSE "down"
            /\ current = previous => result = <<>>

\* C22 (amended): check_level_breaks returns exactly the levels whose value
\* lies between the two prices with the previous price excluded and the
\* current price included -- previous < level <= current, tagged up, or
\* current <= level < previous, tagged down; a level equal to the previous
\* price is not reported, and nothing is reported for equal prices.
C22_PreviousExcludedCurrentIncluded ==
    \A metal \in TechMetals, current \in CheckPrices, previous \in CheckPrices :
        LET result == check_level_breaks(metal, current, previous)
        IN  /\ Named(result) =
                   {name \in LevelNames(metal) :
                       \/ /\ Above(LevelNamed(metal, name), previous)
                          /\ ~Above(LevelNamed(metal, name), current)
                       \/ /\ Below(LevelNamed(metal, name), previous)
                          /\ ~Below(LevelNamed(metal, name), current)}
            /\ Len(result) = Cardinality(Named(result))
            /\ \A k \in 1..Len(result) :
                   /\ result[k].direction = IF current > previous THEN "up" ELSE "down"
                   /\ Above(result[k].level, previous) \/ Below(result[k].level, previous)
            /\ current = previous => result = <<>>

\* A check has reported, upwards, a level whose value is the current price.
C22_Witness ==
    \E k \in 1..Len(checks.breaks) :
        /\ ~Above(checks.breaks[k].level, checks.breaks[k].current_price)
        /\ ~Below(checks.breaks[k].level, checks.breaks[k].current_price)
        /\ checks.breaks[k].direction = "up"

\* C23: check_proximity_alerts returns exactly the levels whose distance from
\* the price, relative to the value of the level, is within
\* TECHNICAL_PROXIMITY_PERCENT (0.3 percent), and a returned level is tagged
\* approaching exactly when it is a support with the price above it or a
\* resistance with the price below it.
C23_ProximityExact ==
    \A metal \in TechMetals, price \in CheckPrices :
        LET result == check_proximity_alerts(metal, price)
            within(level) ==
                Abs(price * level.value.d - level.value.n) * 1000 <= 3 * level.value.n
        IN  /\ Named(result) =
                   {name \in LevelNames(metal) : within(LevelNamed(metal, name))}
            /\ Len(result) = Cardinality(Named(result))
            /\ \A k \in 1..Len(result) :
                   result[k].approaching <=>
                       \/ /\ result[k].level.level_type = "suporte"
                          /\ Below(result[k].level, price)
                       \/ /\ result[k].level.level_type = "resistencia"
                          /\ Above(result[k].level, price)

\* A check has returned a level that is approached and one that is not, and
\* has left a level of the metal out.
C23_Witness ==
    /\ \E k \in 1..Len(checks.proximity) : checks.proximity[k].approaching
    /\ \E k \in 1..Len(checks.proximity) : ~checks.proximity[k].approaching
    /\ \E metal \in TechMetals : Named(checks.proximity) # LevelNames(metal)

\* C24: after update_levels_for_metal every level of the metal is classified
\* by the current price, the newest sample of the history: a level above it
\* is a resistance and a level below it is a support, whatever its name.
C24_ClassifiedByCurrentPrice ==
    \A metal \in TechMetals :
        \A i \in 1..Len(levels[metal]) :
            LET current_price == StoredPrices(metal)[Len(StoredPrices(metal))]
            IN  /\ Above(levels[metal][i], current_price)
                      => levels[metal][i].level_type = "resistencia"
                /\ Below(levels[metal][i], current_price)
                      => levels[metal][i].level_type = "suporte"

\* The levels of a metal as the dict {level_name: value} that a read of the
\* complete set gives.
AsDict(lvls) ==
    [name \in {lvls[i].name : i \in 1..Len(lvls)} |->
        (CHOOSE l \in {lvls[i] : i \in 1..Len(lvls)} : l.name = name).value]

\* C25: a recomputation replaces the whole prior set of levels of the metal:
\* once update_levels_for_metal has stored a set, a read of the store returns
\* that complete set, as the read of the memory does, and never a mixture
\* with rows of an earlier set.
C25_StoreHoldsTheNewSet ==
    \A metal \in TechMetals :
        levels[metal] # <<>> => get_technical_levels(metal) = {AsDict(levels[metal])}

\* C26: calculate_pivot_points returns PP = (H+L+C)/3, R1 = 2PP - L,
\* S1 = 2PP - H, R2 = PP + (H - L), S2 = PP - (H - L), R3 = H + 2(PP - L) and
\* S3 = L - 2(H - PP), compared exactly after scaling by 3, for the sessions
\* of the histories and for the sessions over SessionValues; H = 2050,
\* L = 2000, C = 2030 gives 3PP = 6080.
SessionValues == {2000, 2030, 2050}
ThreeTimes(x, k) == x.n * 3 = k * x.d
PivotFormulas(pv, H, L, C) ==
    /\ ThreeTimes(pv.pp, H + L + C)
    /\ ThreeTimes(pv.r1, 2 * (H + L + C) - 3 * L)
    /\ ThreeTimes(pv.s1, 2 * (H + L + C) - 3 * H)
    /\ ThreeTimes(pv.r2, (H + L + C) + 3 * (H - L))
    /\ ThreeTimes(pv.s2, (H + L + C) - 3 * (H - L))
    /\ ThreeTimes(pv.r3, 3 * H + 2 * ((H + L + C) - 3 * L))
    /\ ThreeTimes(pv.s3, 3 * L - 2 * (3 * H - (H + L + C)))

C26_PivotFormulas ==
    /\ \A H \in SessionValues, L \in SessionValues, C \in SessionValues :
           PivotFormulas(calculate_pivot_points(H, L, C), H, L, C)
    /\ ThreeTimes(calculate_pivot_points(2050, 2000, 2030).pp, 6080)
    /\ \A metal \in TechMetals :
           pivots[metal] # <<>> =>
               LET session == ButLast(StoredPrices(metal))
               IN  PivotFormulas(pivots[metal][1], MaxOf(session), MinOf(session),
                                 session[Len(session)])

\* update_levels_for_metal has computed the pivots of a session whose high,
\* low and close are three different prices.
C26_Witness ==
    \E metal \in TechMetals :
        /\ pivots[metal] # <<>>
        /\ LET session == ButLast(StoredPrices(metal))
           IN  /\ MinOf(session) < session[Len(session)]
               /\ session[Len(session)] < MaxOf(session)
               /\ ThreeTimes(pivots[metal][1].pp,
                             MaxOf(session) + MinOf(session) + session[Len(session)])

\* C27: find_multiple_touches takes as extrema only the samples strictly
\* above or strictly below both neighbours; it returns only clusters of two
\* members at least; and for a series whose extrema are two values within
\* the tolerance of each other and one value farther than the tolerance from
\* both, it returns one level, the mean of the two with touch count 2, and
\* none for the isolated extremum.
StrictExtrema(prices) ==
    {i \in 2..(Len(prices) - 1) :
        \/ prices[i] > prices[i - 1] /\ prices[i] > prices[i + 1]
        \/ prices[i] < prices[i - 1] /\ prices[i] < prices[i + 1]}
WithinTolerance(x, y) == Abs(x - y) * 200 <= x /\ Abs(x - y) * 200 <= y
BeyondTolerance(x, y) == Abs(x - y) * 200 > x /\ Abs(x - y) * 200 > y
TwoCloseOneIsolated(prices) ==
    \E i, j, k \in StrictExtrema(prices) :
        /\ StrictExtrema(prices) = {i, j, k}
        /\ i # j /\ i # k /\ j # k
        /\ WithinTolerance(prices[i], prices[j])
        /\ BeyondTolerance(prices[k], prices[i])
        /\ BeyondTolerance(prices[k], prices[j])

C27_TouchClusters ==
    \A metal \in TechMetals :
        LET prices == StoredPrices(metal)
            result == find_multiple_touches(prices, DefaultTolerance)
        IN  /\ \A r \in 1..Len(result) : result[r].touches >= 2
            /\ SumSeq([r \in 1..Len(result) |-> result[r].touches])
                   <= Cardinality(StrictExtrema(prices))
            /\ \A r \in 1..Len(result) :
                   \E i \in StrictExtrema(prices), j \in StrictExtrema(prices) :
                       /\ i # j
                       /\ Le(Num(prices[i]), result[r].avg_level)
                       /\ Le(result[r].avg_level, Num(prices[j]))
            /\ TwoCloseOneIsolated(prices) =>
                   \E i, j \in StrictExtrema(prices) :
                       /\ i # j
                       /\ WithinTolerance(prices[i], prices[j])
                       /\ Len(result) = 1
                       /\ result[1].touches = 2
                       /\ result[1].avg_level.n * 2
                              = (prices[i] + prices[j]) * result[1].avg_level.d

\* update_levels_for_metal has stored the one level of such a series: the
\* history has three extrema, two of them close, and the levels hold
\* multi_touch_1 with two touches and no multi_touch_2.
C27_Witness ==
    \E metal \in TechMetals :
        /\ TwoCloseOneIsolated(StoredPrices(metal))
        /\ "multi_touch_1" \in LevelNames(metal)
        /\ "multi_touch_2" \notin LevelNames(metal)
        /\ LevelNamed(metal, "multi_touch_1").touches = 2


(***************************************************************************)
(* Properties of the life of an alert                                      *)
(***************************************************************************)
\* C28: an alert is queued only as a candidate that is neither filtered nor
\* a duplicate; a queued alert leaves the queue only by being popped for its
\* dispatch or by the discard of a silenced drain; a popped alert goes on to
\* the send callback, which returns (the alert is recorded) or raises; and
\* the ledger holds a fingerprint only of an alert that was dispatched.  No
\* alert leaves this path for another reason.
C28_Step(i) ==
    \/ life'[i].st = life[i].st
    \/ life[i].st = "queued" /\ life'[i].st = "inflight"
    \/ life[i].st = "queued" /\ life'[i].st = "discarded" /\ _is_silenced
    \/ life[i].st = "inflight" /\ life'[i].st = "sent" /\ Hash(i) \in alerts_sent'
    \/ life[i].st = "inflight" /\ life'[i].st = "failed"

C28_Queued(i) ==
    /\ life'[i].st = "queued"
    /\ ~is_alert_sent(Hash(i)')
    /\ life'[i].alert.metal = None \/ ~_should_filter_metal(life'[i].alert.metal)

C28_Transitions ==
    /\ \A i \in Alerts : C28_Step(i)
    /\ \A i \in Alerts' \ Alerts : C28_Queued(i)

C28_RecordedWasDispatched ==
    \A h \in alerts_sent : \E i \in Alerts : Hash(i) = h /\ Sent(i)

C28_AlertLifecycle == []C28_RecordedWasDispatched /\ [][C28_Transitions]_vars


(***************************************************************************)
(* Properties of the enrichment quota                                      *)
(***************************************************************************)
\* The alerts whose enrichment has returned, and what it did.
Enriched == {i \in Alerts : life[i].llm # <<>>}
Called(i) == life[i].llm[1].called
Quota(i) == life[i].llm[1].remaining

C30_SeverityDecidesEnrichment ==
    \A i \in Alerts :
        /\ life[i].alert.level = "CRITICO" =>
               /\ life[i].alert.requires_llm
               /\ i \in Enriched /\ Quota(i) > 0 => Called(i)
               /\ Sent(i) => i \in Enriched
        /\ life[i].alert.level = "INFO" =>
               /\ ~life[i].alert.requires_llm
               /\ i \in Enriched => ~Called(i)

(***************************************************************************)
(* Properties of the priority ordinal                                      *)
(***************************************************************************)
\* The severity of a level: CRITICO above IMPORTANTE above INFO.
Severity(level) ==
    CASE level = "CRITICO" -> 3 [] level = "IMPORTANTE" -> 2 [] OTHER -> 1

\* Of any two alerts the rule functions have built, the more severe has the
\* strictly higher priority.
C31_PriorityFollowsSeverity ==
    \A i, j \in Alerts :
        Severity(life[i].alert.level) > Severity(life[j].alert.level)
            => life[i].alert.priority > life[j].alert.priority

\* A drain with no enqueue since its start that ends at the rate limit
\* leaves no alert queued that is more severe than the alert it has just
\* dispatched.
C31_CapLeavesNoMoreSevere ==
    \A p \in Callers :
        /\ pc[p] = "sleep" /\ pc'[p] = "idle"
        /\ alert_queue' # <<>> /\ drain[p].noenq
        => \A k \in 1..Len(alert_queue') :
               Severity(alert_queue'[k].level) <= Severity(cur[p][1].level)

\* C31: the priority the rule functions assign is strictly monotone in the
\* severity, and a drain that stops at the rate cap never has dispatched a
\* less severe alert while it leaves a more severe one queued.
C31_SeverityOrder == []C31_PriorityFollowsSeverity /\ [][C31_CapLeavesNoMoreSevere]_vars

(***************************************************************************)
(* Properties of the delivery through TelegramBot.send_message             *)
(***************************************************************************)
\* C32: with TelegramBot.send_message as the send callback, a fingerprint is
\* in the ledger only if the messaging API accepted an alert with that
\* fingerprint, and an alert that was not delivered is not counted: every
\* alert marked as sent was delivered.
C32_UndeliveredNotRecorded ==
    /\ \A i \in Alerts :
           Hash(i) \in alerts_sent => \E j \in delivered : Hash(j) = Hash(i)
    /\ \A i \in Alerts : Sent(i) => i \in delivered

(***************************************************************************)
(* Properties of the health counters of a price source                     *)
(***************************************************************************)
\* C33: consecutive_failures counts the attempts that failed, by raising or
\* by returning an empty mapping, since the last attempt that returned
\* data: it is 0, and last_success is set, when the call has returned data,
\* and while no attempt of the call has returned data it is its value
\* before the call plus the number of failed attempts of the call.
C33_CountsEveryFailedAttempt ==
    IF Successes # {}
    THEN fetch.consecutive_failures = 0 /\ fetch.last_success # <<>>
    ELSE /\ fetch.consecutive_failures = fetch.before + Cardinality(FailedAttempts)
         /\ fetch.last_success # <<>> => fetch.fetches > 1

(***************************************************************************)
(* Properties of the rolling price history                                 *)
(***************************************************************************)
\* The history of code as a cycle at the current time leaves it when the
\* code obtained a fused price: the points newer than 48 hours, then the
\* new point.
Retained(code) ==
    SelectSeq(price_history[code], LAMBDA e : e[1] > now - RetentionSeconds)

\* C34: a collection cycle appends exactly one point, the fused price at the
\* time of the cycle, to the history of every instrument that obtained a
\* fused price, as its last element, and writes one row to the table; after
\* the cycle every point of such a history is newer than now - 48 h, and no
\* point newer than that was removed.
C34_Step ==
    cycle' = cycle + 1 =>
        \A code \in Keys :
            merged'[code] # <<>> =>
                LET h == price_history'[code]
                IN  /\ h = Append(Retained(code), <<now, merged'[code][1].price>>)
                    /\ \A k \in 1..Len(h) : h[k][1] > now' - RetentionSeconds
                    /\ Len(db_price_history'[code]) = Len(db_price_history[code]) + 1

C34_OneAppendAndPrune == [][C34_Step]_vars

\* The second cycle, 48 hours or more after the first, has removed the point
\* of the first and left its own as the only one.
C34_Witness ==
    /\ cycle = 2
    /\ merged["XAU"] # <<>>
    /\ Len(db_price_history["XAU"]) = 2
    /\ price_history["XAU"] = <<<<now, merged["XAU"][1].price>>>>
    /\ now >= RetentionSeconds

\* Windows longer than the retention (minutes): 49 hours, and the 7 days of
\* the weekly digest.
LongWindows == {2940, 1440 * 7}
\* The time of the last cycle in which code obtained a fused price.
LatestCycleAt(code) == price_history[code][Len(price_history[code])][1]

\* C39 as stated: for an instrument that obtained a fused price in the
\* latest collection cycle, calculate_change over a window longer than 48
\* hours returns None.
C39_LongWindowUnavailable ==
    \A code \in Keys, minutes \in LongWindows :
        merged[code] # <<>> => calculate_change(code, minutes) = <<>>

\* C39: for an instrument that obtained a fused price in the latest
\* collection cycle, calculate_change over a window longer than 48 hours
\* returns None as long as the time passed since that cycle is not longer
\* than the window minus 48 hours.
C39_UnavailableWhileCycleIsRecent ==
    \A code \in Keys, minutes \in LongWindows :
        /\ merged[code] # <<>>
        /\ utcnow - LatestCycleAt(code) <= minutes * 60 - RetentionSeconds
        => calculate_change(code, minutes) = <<>>

\* Right after the second cycle that fused a gold price, the first being
\* more than 49 hours back, the changes over 49 hours and over 7 days are
\* not available.
C39_Witness ==
    /\ merged["XAU"] # <<>>
    /\ LatestCycleAt("XAU") = utcnow
    /\ Len(db_price_history["XAU"]) = 2
    /\ utcnow > 2940 * 60
    /\ \A minutes \in LongWindows : calculate_change("XAU", minutes) = <<>>

(***************************************************************************)
(* Properties of the table technical_levels                                *)
(***************************************************************************)
\* The rows of the table that the levels in memory of the metal would give.
RowsOf(metal) ==
    {[metal |-> levels[metal][i].metal, level_type |-> levels[metal][i].level_type,
      level_name |-> levels[metal][i].name, value |-> levels[metal][i].value] :
        i \in 1..Len(levels[metal])}

C35_OneRowPerName ==
    \A r1, r2 \in technical_levels :
        r1.metal = r2.metal /\ r1.level_name = r2.level_name => r1 = r2

C35_RowsOfLatestComputation ==
    \A metal \in TechMetals :
        levels[metal] # <<>> =>
            {r \in technical_levels : r.metal = metal} = RowsOf(metal)

\* C35: after any sequence of update_levels_for_metal calls the table holds
\* at most one row per (metal, level name), and the rows of a metal are
\* exactly the levels of its most recent computation: no row of an earlier
\* computation is left, whether its classification flipped or its name is
\* no longer computed.
C35_StoreIsLatestComputation == C35_OneRowPerName /\ C35_RowsOfLatestComputation

(***************************************************************************)
(* Properties of interleaved drains                                        *)
(***************************************************************************)
\* C36: alerts_sent_this_hour never exceeds the cap, whichever way the
\* drains of the scheduled jobs interleave between the rate-limit check and
\* the increment.
C36_CounterWithinCap == alerts_sent_this_hour \in 0..RateCap

\* A drain pops an alert, and so hands it to the send callback, only while
\* the alerts are not silenced.
C37_PopsOnlyUnsilenced == \A p \in Callers : Popped(p) => ~_is_silenced

\* C37: no alert is handed to the send callback while the suppression is
\* active; when a control command silences the alerts while a drain is
\* suspended at an await, the drain dispatches none of the remaining
\* alerts.
C37_NoDispatchWhileSilenced == [][C37_PopsOnlyUnsilenced]_vars

(***************************************************************************)
(* Properties of the termination of a drain                                *)
(***************************************************************************)
\* While nothing was enqueued since the drain of p started, the drain has
\* popped no more alerts than the queue held at its start, and the queue
\* holds no more than the rest.
C38_AttemptsBounded ==
    \A p \in Callers :
        Running(p) /\ drain[p].noenq =>
            /\ drain[p].nsent <= drain[p].M
            /\ Len(alert_queue) <= drain[p].M - drain[p].nsent

\* An iteration that goes on to a send removes exactly the alert it sends
\* from the queue, an alert no drain has attempted before; the iteration
\* after a send that returned or raised pops another alert or ends the
\* drain.
C38_Iteration ==
    \A p \in Callers :
        /\ Popped(p) =>
               /\ cur'[p][1].id \in Ids(alert_queue) \ Ids(alert_queue')
               /\ Len(alert_queue') = Len(alert_queue) - 1
               /\ life[cur'[p][1].id].st = "queued"
        /\ Ends(p) => ~Popped(p) /\ Len(alert_queue') = Len(alert_queue)

\* C38: every process_queue call terminates; each iteration removes exactly
\* one alert from the queue, whether its send returns or raises, or ends the
\* drain at the rate limit; with no enqueue during the drain the drain
\* makes at most as many send attempts as the queue held at its start, and
\* no queued alert is attempted twice.
C38_DrainTerminates ==
    /\ []C38_AttemptsBounded
    /\ [][C38_Iteration]_vars
    /\ \A p \in Callers : Running(p) ~> ~Running(p)

\* A drain that started on three alerts has attempted all three, one send
\* having raised, with nothing enqueued meanwhile.
C38_Witness ==
    \E p \in Callers :
        /\ Running(p) /\ drain[p].noenq
        /\ drain[p].M = 3 /\ drain[p].nsent = 3
        /\ \E i \in Alerts : life[i].st = "failed"

(***************************************************************************)
(* Properties of the order of the adapter results                          *)
(***************************************************************************)
\* The sources whose task returned an observation of code inside the band,
\* and that observation.
Observing(code) ==
    {i \in Remaining :
        /\ tasks[i][1].prices[code] # <<>>
        /\ InBand(tasks[i][1].prices[code][1])}
Observation(i, code) == tasks[i][1].prices[code][1]

====
